---------------------------- MODULE Spec2Model ----------------------------
(***************************************************************************)
(* The document field-extraction pipeline of YahyaBadge                    *)
(* (src/src/utils/ocrProcessor.ts).                                        *)
(*                                                                         *)
(* A JavaScript string is a sequence of characters.  An ASCII character is *)
(* the one-character string that holds it; an Arabic character is named by *)
(* its Unicode name ("alef" is U+0627, "arabic_comma" is U+060C).  The     *)
(* regular expressions of the source are matched character by character.   *)
(***************************************************************************)
EXTENDS Integers, Sequences, FiniteSets, TLC

(***************************************************************************)
(* Characters and the character classes of the regular expressions.        *)
(***************************************************************************)
UpperSeq ==
  <<"A", "B", "C", "D", "E", "F", "G", "H", "I", "J", "K", "L", "M",
    "N", "O", "P", "Q", "R", "S", "T", "U", "V", "W", "X", "Y", "Z">>

LowerSeq ==
  <<"a", "b", "c", "d", "e", "f", "g", "h", "i", "j", "k", "l", "m",
    "n", "o", "p", "q", "r", "s", "t", "u", "v", "w", "x", "y", "z">>

DigitSeq == <<"0", "1", "2", "3", "4", "5", "6", "7", "8", "9">>

UpperSet == {UpperSeq[i] : i \in 1..Len(UpperSeq)}

LowerSet == {LowerSeq[i] : i \in 1..Len(LowerSeq)}

DigitSet == {DigitSeq[i] : i \in 1..Len(DigitSeq)}

\* The characters of the block U+0600..U+06FF that the model uses: the letters
\* of the source's tables, the Arabic comma, and two characters ("peh" U+067E,
\* "tatweel" U+0640) that arabicToLatinMap does not map.
ArabicSet ==
  {"arabic_comma", "hamza", "alef_madda_above", "alef_hamza_above",
   "waw_hamza_above", "alef_hamza_below", "yeh_hamza_above", "alef", "beh",
   "teh_marbuta", "teh", "theh", "jeem", "hah", "khah", "dal", "thal", "reh",
   "zain", "seen", "sheen", "sad", "dad", "tah", "zah", "ain", "ghain",
   "feh", "qaf", "kaf", "lam", "meem", "noon", "heh", "waw", "alef_maksura",
   "yeh", "peh", "tatweel"}

\* \s
SpaceSet == {" ", "\n", "\t"}

IsSpace(c) == c \in SpaceSet

IsUpper(c) == c \in UpperSet

IsLower(c) == c \in LowerSet

IsDigit(c) == c \in DigitSet

IsAlpha(c) == IsUpper(c) \/ IsLower(c)

\* \w
IsWord(c) == IsAlpha(c) \/ IsDigit(c) \/ c = "_"

\* [؀-ۿ]
IsArabic(c) == c \in ArabicSet

LowerMap == [c \in UpperSet |-> LowerSeq[CHOOSE i \in 1..26 : UpperSeq[i] = c]]

LowerOf(c) == IF c \in UpperSet THEN LowerMap[c] ELSE c

\* String.prototype.toLowerCase
ToLowerCase(s) == [i \in 1..Len(s) |-> LowerOf(s[i])]

Min(a, b) == IF a < b THEN a ELSE b

Max(a, b) == IF a > b THEN a ELSE b

\* String.prototype.substring(a, b), 0-based, end exclusive, clamped to the string
Substring(s, a, b) == SubSeq(s, Min(a, Len(s)) + 1, Min(b, Len(s)))

\* String.prototype.substring(a)
SubstringFrom(s, a) == SubSeq(s, Min(a, Len(s)) + 1, Len(s))

\* the literal w stands in s at (1-based) position i
MatchAt(s, i, w) ==
  /\ i >= 1
  /\ i + Len(w) - 1 <= Len(s)
  /\ \A j \in 1..Len(w) : s[i + j - 1] = w[j]

\* the same under the i flag
MatchAtCI(s, i, w) ==
  /\ i >= 1
  /\ i + Len(w) - 1 <= Len(s)
  /\ \A j \in 1..Len(w) : LowerOf(s[i + j - 1]) = LowerOf(w[j])

Contains(s, w) == \E i \in 1..Len(s) : MatchAt(s, i, w)

ContainsCI(s, w) == \E i \in 1..Len(s) : MatchAtCI(s, i, w)

\* every character of s[i..j] (1-based, inclusive) is in the class
AllUpper(s, i, j) == j <= Len(s) /\ \A k \in i..j : IsUpper(s[k])

AllDigit(s, i, j) == j <= Len(s) /\ \A k \in i..j : IsDigit(s[k])

AllUpperOrDigit(s, i, j) ==
  j <= Len(s) /\ \A k \in i..j : IsUpper(s[k]) \/ IsDigit(s[k])

HasArabic(s) == \E i \in 1..Len(s) : IsArabic(s[i])

NotSpace(c) == ~IsSpace(c)

\* s.replace(/\s/g, '')
RemoveSpaces(s) == SelectSeq(s, NotSpace)

\* the number of leading whitespace characters of s
RECURSIVE LeadingSpaces(_)
LeadingSpaces(s) ==
  IF s = <<>> \/ ~IsSpace(Head(s)) THEN 0 ELSE 1 + LeadingSpaces(Tail(s))

RECURSIVE TrimEnd(_)
TrimEnd(s) ==
  IF s = <<>> \/ ~IsSpace(s[Len(s)]) THEN s ELSE TrimEnd(SubSeq(s, 1, Len(s) - 1))

\* String.prototype.trim
Trim(s) == TrimEnd(SubSeq(s, LeadingSpaces(s) + 1, Len(s)))

\* s.split(c) for a one-character separator: the pieces, in order
RECURSIVE SplitChar(_, _)
SplitChar(s, c) ==
  IF \A i \in 1..Len(s) : s[i] # c
  THEN <<s>>
  ELSE LET p == CHOOSE i \in 1..Len(s) : s[i] = c /\ \A j \in 1..(i - 1) : s[j] # c
       IN  <<SubSeq(s, 1, p - 1)>> \o SplitChar(SubSeq(s, p + 1, Len(s)), c)

\* text.split('\n')
SplitLines(text) == SplitChar(text, "\n")

\* the least element of a set of positions, 0 if it is empty
MinOrZero(S) == IF S = {} THEN 0 ELSE CHOOSE i \in S : \A j \in S : i <= j

\* the greatest element of a set of positions, 0 if it is empty
MaxOrZero(S) == IF S = {} THEN 0 ELSE CHOOSE i \in S : \A j \in S : i >= j

\* the value of the first pattern, in order, that matches: the first element
\* of results that is not the empty string, the empty string if there is none
FirstMatch(results) ==
  LET i0 == MinOrZero({i \in 1..Len(results) : results[i] # <<>>})
  IN  IF i0 = 0 THEN <<>> ELSE results[i0]

(***************************************************************************)
(* detectDocumentType                                                      *)
(***************************************************************************)
\* /P<[A-Z]{3}/.test(text) || /[A-Z0-9]{9}[A-Z]{3}[0-9]{7}/.test(text)
HasMRZ(text) ==
  \/ \E i \in 1..Len(text) : MatchAt(text, i, <<"P", "<">>) /\ AllUpper(text, i + 2, i + 4)
  \/ \E i \in 1..Len(text) :
       /\ AllUpperOrDigit(text, i, i + 8)
       /\ AllUpper(text, i + 9, i + 11)
       /\ AllDigit(text, i + 12, i + 18)

\* /passport|passeport|جواز\s*سفر|royaume|kingdom/i
HasPassportKeywords(text) ==
  \/ ContainsCI(text, <<"p", "a", "s", "s", "p", "o", "r", "t">>)
  \/ ContainsCI(text, <<"p", "a", "s", "s", "e", "p", "o", "r", "t">>)
  \/ \E i \in 1..Len(text) :
       /\ MatchAt(text, i, <<"jeem", "waw", "alef", "zain">>)
       /\ \E k \in 0..Len(text) :
            /\ \A j \in (i + 4)..(i + 3 + k) : j <= Len(text) /\ IsSpace(text[j])
            /\ MatchAt(text, i + 4 + k, <<"seen", "feh", "reh">>)
  \/ ContainsCI(text, <<"r", "o", "y", "a", "u", "m", "e">>)
  \/ ContainsCI(text, <<"k", "i", "n", "g", "d", "o", "m">>)

\* /visa|تأشيرة|entry|umrah|hajj/i
HasVisaKeywords(text) ==
  \/ ContainsCI(text, <<"v", "i", "s", "a">>)
  \/ Contains(text, <<"teh", "alef_hamza_above", "sheen", "yeh", "reh", "teh_marbuta">>)
  \/ ContainsCI(text, <<"e", "n", "t", "r", "y">>)
  \/ ContainsCI(text, <<"u", "m", "r", "a", "h">>)
  \/ ContainsCI(text, <<"h", "a", "j", "j">>)

\* Mutation of detectDocumentType: the visa keywords are tested before the
\* passport keywords
detectDocumentTypeVisaFirst(text) ==
  IF HasMRZ(text) THEN "passport"
  ELSE IF HasVisaKeywords(text) THEN "visa"
  ELSE IF HasPassportKeywords(text) THEN "passport"
  ELSE "visa"

detectDocumentType(text) ==
  IF HasMRZ(text) \/ HasPassportKeywords(text)
  THEN "passport"
  ELSE IF HasVisaKeywords(text) THEN "visa" ELSE "visa"

(***************************************************************************)
(* parseMRZ                                                                *)
(***************************************************************************)
MinMRZLineLength == 40

\* the value null
Null == [null |-> TRUE]

\* the value NaN of parseInt
NaN == [nan |-> TRUE]

\* lines.map(l => l.trim())
TrimAll(lines) == [i \in 1..Len(lines) |-> Trim(lines[i])]

\* /^P<[A-Z]{3}/.test(line) && line.length >= 40
IsMRZLine1(line) ==
  /\ MatchAt(line, 1, <<"P", "<">>)
  /\ AllUpper(line, 3, 5)
  /\ Len(line) >= MinMRZLineLength

\* the number of leading uppercase letters of s
RECURSIVE LeadingUpper(_)
LeadingUpper(s) ==
  IF s = <<>> \/ ~IsUpper(Head(s)) THEN 0 ELSE 1 + LeadingUpper(Tail(s))

\* /^[A-Z]{9,}[A-Z]{3}[0-9]{7}/.test(line) && line.length >= 40
\* (the letters of both blocks are one run of at least 12, the digits follow it)
IsMRZLine2Fallback(line) ==
  /\ LeadingUpper(line) >= 12
  /\ AllDigit(line, LeadingUpper(line) + 1, LeadingUpper(line) + 7)
  /\ Len(line) >= MinMRZLineLength

\* Mutation of MRZHit: the scan goes on past a line whose neighbour is
\* missing or empty.
MRZHitWithNeighbour(lines) ==
  MinOrZero({i \in 1..Len(lines) :
               \/ /\ IsMRZLine1(RemoveSpaces(lines[i]))
                  /\ i + 1 <= Len(lines) /\ RemoveSpaces(lines[i + 1]) # <<>>
               \/ /\ ~IsMRZLine1(RemoveSpaces(lines[i]))
                  /\ IsMRZLine2Fallback(RemoveSpaces(lines[i]))
                  /\ i > 1 /\ RemoveSpaces(lines[i - 1]) # <<>>})

\* the index (1-based) of the line at which the scan breaks, 0 if it never does
MRZHit(lines) ==
  MinOrZero({i \in 1..Len(lines) : \/ IsMRZLine1(RemoveSpaces(lines[i]))
                                    \/ IsMRZLine2Fallback(RemoveSpaces(lines[i]))})

\* mrzLine1 and mrzLine2 as the for loop leaves them when it breaks at line h
\* (h = 0: it never breaks)
MRZLinesAt(lines, h) ==
  IF h = 0
  THEN [mrzLine1 |-> <<>>, mrzLine2 |-> <<>>]
  ELSE IF IsMRZLine1(RemoveSpaces(lines[h]))
  THEN [mrzLine1 |-> RemoveSpaces(lines[h]),
        mrzLine2 |-> IF h + 1 <= Len(lines) THEN RemoveSpaces(lines[h + 1]) ELSE <<>>]
  ELSE [mrzLine1 |-> IF h > 1 THEN RemoveSpaces(lines[h - 1]) ELSE <<>>,
        mrzLine2 |-> RemoveSpaces(lines[h])]

\* the for loop over the trimmed lines
ScanMRZLines(lines) == MRZLinesAt(lines, MRZHit(lines))

MRZLines(text) == ScanMRZLines(TrimAll(SplitLines(text)))

\* namePart.split('<<')
RECURSIVE SplitFill(_)
SplitFill(s) ==
  LET at(i) == i < Len(s) /\ s[i] = "<" /\ s[i + 1] = "<"
  IN  IF \A i \in 1..Len(s) : ~at(i)
      THEN <<s>>
      ELSE LET p == CHOOSE i \in 1..Len(s) : at(i) /\ \A j \in 1..(i - 1) : ~at(j)
           IN  <<SubSeq(s, 1, p - 1)>> \o SplitFill(SubSeq(s, p + 2, Len(s)))

\* s.replace(/</g, ' ')
FillToSpace(s) == [i \in 1..Len(s) |-> IF s[i] = "<" THEN " " ELSE s[i]]

NotFill(c) == c # "<"

\* s.replace(/</g, '')
RemoveFill(s) == SelectSeq(s, NotFill)

\* nameParts[k]?.replace(/</g, ' ').trim() || ''     (k 0-based)
NamePart(nameParts, k) ==
  IF k + 1 <= Len(nameParts) THEN Trim(FillToSpace(nameParts[k + 1])) ELSE <<>>

DigitValue(c) == (CHOOSE i \in 1..10 : DigitSeq[i] = c) - 1

\* parseInt of a string of at most two characters without whitespace
parseInt(s) ==
  IF s = <<>> THEN NaN
  ELSE IF IsDigit(s[1])
  THEN IF Len(s) >= 2 /\ s[1] = "0" /\ s[2] \in {"x", "X"} THEN NaN
       ELSE IF Len(s) >= 2 /\ IsDigit(s[2])
       THEN [nan |-> FALSE, val |-> 10 * DigitValue(s[1]) + DigitValue(s[2])]
       ELSE [nan |-> FALSE, val |-> DigitValue(s[1])]
  ELSE IF s[1] \in {"+", "-"} /\ Len(s) >= 2 /\ IsDigit(s[2])
  THEN [nan |-> FALSE, val |-> IF s[1] = "-" THEN 0 - DigitValue(s[2]) ELSE DigitValue(s[2])]
  ELSE NaN

\* `${n}` for a number n of parseInt above (-9..99) or NaN
NumberToString(n) ==
  IF n.nan THEN <<"N", "a", "N">>
  ELSE IF n.val < 0 THEN <<"-", DigitSeq[1 - n.val]>>
  ELSE IF n.val < 10 THEN <<DigitSeq[n.val + 1]>>
  ELSE <<DigitSeq[(n.val \div 10) + 1], DigitSeq[(n.val % 10) + 1]>>

\* Mutation of CenturyYear: the comparison is >= 50
CenturyYearFromFifty(yy) ==
  IF ~yy.nan /\ yy.val >= 50
  THEN <<"1", "9">> \o NumberToString(yy)
  ELSE <<"2", "0">> \o NumberToString(yy)

\* yy > 50 ? `19${yy}` : `20${yy}`
CenturyYear(yy) ==
  IF ~yy.nan /\ yy.val > 50
  THEN <<"1", "9">> \o NumberToString(yy)
  ELSE <<"2", "0">> \o NumberToString(yy)

convertDate(yymmdd) ==
  IF Len(yymmdd) # 6 THEN <<>>
  ELSE LET yy == parseInt(Substring(yymmdd, 0, 2))
           mm == Substring(yymmdd, 2, 4)
           dd == Substring(yymmdd, 4, 6)
       IN  dd \o <<"/">> \o mm \o <<"/">> \o CenturyYear(yy)

\* the MRZData built from the two lines
\* Mutation of DecodeFields: the fields after the passport number are read one
\* character early, as if no check digit followed the number
DecodeFieldsNoCheckDigit(nameParts, mrzLine2) ==
  [passportNumber |-> Trim(RemoveFill(Substring(mrzLine2, 0, 9))),
   dateOfBirth    |-> convertDate(Substring(mrzLine2, 12, 18)),
   expiryDate     |-> convertDate(Substring(mrzLine2, 20, 26)),
   nationality    |-> Substring(mrzLine2, 9, 12),
   sex            |-> Substring(mrzLine2, 19, 20),
   lastName       |-> NamePart(nameParts, 0),
   firstName      |-> NamePart(nameParts, 1)]

DecodeFields(nameParts, mrzLine2) ==
  [passportNumber |-> Trim(RemoveFill(Substring(mrzLine2, 0, 9))),
   dateOfBirth    |-> convertDate(Substring(mrzLine2, 13, 19)),
   expiryDate     |-> convertDate(Substring(mrzLine2, 21, 27)),
   nationality    |-> Substring(mrzLine2, 10, 13),
   sex            |-> Substring(mrzLine2, 20, 21),
   lastName       |-> NamePart(nameParts, 0),
   firstName      |-> NamePart(nameParts, 1)]

DecodeMRZ(mrzLine1, mrzLine2) ==
  DecodeFields(SplitFill(SubstringFrom(mrzLine1, 5)), mrzLine2)

\* Mutation of DecodeLines: a line 2 shorter than 40 characters is refused
DecodeLinesOfFullLength(l) ==
  IF l.mrzLine1 = <<>> \/ l.mrzLine2 = <<>> \/ Len(l.mrzLine2) < MinMRZLineLength
  THEN Null
  ELSE DecodeMRZ(l.mrzLine1, l.mrzLine2)

\* if (!mrzLine1 || !mrzLine2) return null;  then the decode
DecodeLines(l) ==
  IF l.mrzLine1 = <<>> \/ l.mrzLine2 = <<>>
  THEN Null
  ELSE DecodeMRZ(l.mrzLine1, l.mrzLine2)

parseMRZ(text) == DecodeLines(MRZLines(text))

(***************************************************************************)
(* Pattern matching shared by the field extractors.  A pattern operator    *)
(* returns what the code returns for its match (a captured group is never  *)
(* empty), and the empty string when the pattern matches nowhere.          *)
(***************************************************************************)
\* the length of the longest run of characters of the class C (a set of
\* characters) that starts at p
RunLen(s, p, C) ==
  IF p < 1 \/ p > Len(s) THEN 0
  ELSE CHOOSE n \in 0..Len(s) :
         /\ p + n - 1 <= Len(s)
         /\ \A k \in p..(p + n - 1) : s[k] \in C
         /\ (p + n > Len(s) \/ s[p + n] \notin C)

\* words[1] \s* words[2] \s* ... matched at i: the position after the match, 0
\* if it does not match (ci: under the i flag)
RECURSIVE LabelEnd(_, _, _, _)
LabelEnd(s, i, words, ci) ==
  IF words = <<>> THEN i
  ELSE LET w == Head(words)
           here == IF ci THEN MatchAtCI(s, i, w) ELSE MatchAt(s, i, w)
           next == i + Len(w)
       IN  IF ~here THEN 0
           ELSE IF Len(words) = 1 THEN next
           ELSE LabelEnd(s, next + RunLen(s, next, SpaceSet), Tail(words), ci)

\* \b between s[p - 1] and s[p]
WordBoundary(s, p) ==
  LET before == p - 1 >= 1 /\ p - 1 <= Len(s) /\ IsWord(s[p - 1])
      after == p >= 1 /\ p <= Len(s) /\ IsWord(s[p])
  IN  before # after

\* <sep>+ after a label that ends before position e: the position after the
\* run of separators, 0 if the label did not match (e = 0) or no separator
\* follows it
CaptureStart(s, e, Sep) ==
  IF e = 0 \/ RunLen(s, e, Sep) = 0 THEN 0 ELSE e + RunLen(s, e, Sep)

\* (<cap>+) at p: the run of class Cap that starts there, the empty string if
\* there is none
TakeRun(s, p, Cap) ==
  IF p = 0 \/ RunLen(s, p, Cap) = 0 THEN <<>> ELSE SubSeq(s, p, p + RunLen(s, p, Cap) - 1)

\* <label><sep>+(<cap>+): the capture of the leftmost match
LabelledRun(s, words, ci, Sep, Cap) ==
  FirstMatch([i \in 1..Len(s) |->
                TakeRun(s, CaptureStart(s, LabelEnd(s, i, words, ci), Sep), Cap)])

\* [.:\s]
DotColonSpace == {".", ":"} \cup SpaceSet

\* [:\s]
ColonSpace == {":"} \cup SpaceSet

\* [A-Z0-9]
UpperOrDigit == UpperSet \cup DigitSet

\* [A-Z0-9] under the i flag
AlphaOrDigit == UpperSet \cup LowerSet \cup DigitSet

(***************************************************************************)
(* extractPassportNumber                                                   *)
(***************************************************************************)
\* the n characters of s from position p, the empty string if n = 0
TakeLen(s, p, n) == IF n = 0 THEN <<>> ELSE SubSeq(s, p, p + n - 1)

\* [A-Z]{1,2}\d{7,9} matched at i: the length of the match, 0 if none
PassportShapeLen(s, i) ==
  IF i > Len(s) \/ ~IsUpper(s[i]) THEN 0
  ELSE IF i + 1 <= Len(s) /\ IsUpper(s[i + 1]) /\ RunLen(s, i + 2, DigitSet) >= 7
  THEN 2 + Min(9, RunLen(s, i + 2, DigitSet))
  ELSE IF RunLen(s, i + 1, DigitSet) >= 7
  THEN 1 + Min(9, RunLen(s, i + 1, DigitSet))
  ELSE 0

\* the three patterns, in order:
\*   /Passport\s*No[.:\s]+([A-Z0-9]+)/i
\*   /رقم\s*جواز\s*السفر[:\s]+([A-Z0-9]+)/
\*   /[A-Z]{1,2}\d{7,9}/
extractPassportNumber(text) ==
  FirstMatch(
    <<Trim(LabelledRun(text, << <<"P", "a", "s", "s", "p", "o", "r", "t">>, <<"N", "o">> >>,
                       TRUE, DotColonSpace, AlphaOrDigit)),
      Trim(LabelledRun(text, << <<"reh", "qaf", "meem">>, <<"jeem", "waw", "alef", "zain">>,
                                <<"alef", "lam", "seen", "feh", "reh">> >>,
                       FALSE, ColonSpace, UpperOrDigit)),
      Trim(FirstMatch([i \in 1..Len(text) |-> TakeLen(text, i, PassportShapeLen(text, i))]))>>)

(***************************************************************************)
(* extractVisaNumber                                                       *)
(***************************************************************************)
\* /\b\d{10,12}\b/
VisaNoShapeLen(s, i) ==
  IF /\ IsDigit(s[i])
     /\ WordBoundary(s, i)
     /\ RunLen(s, i, DigitSet) \in 10..12
     /\ WordBoundary(s, i + RunLen(s, i, DigitSet))
  THEN RunLen(s, i, DigitSet)
  ELSE 0

\* Mutation of extractVisaNumber: the bare shape is tried first.
extractVisaNumberBareFirst(text) ==
  FirstMatch(
    <<Trim(FirstMatch([i \in 1..Len(text) |-> TakeLen(text, i, VisaNoShapeLen(text, i))])),
      Trim(LabelledRun(text, << <<"V", "i", "s", "a">>, <<"N", "o">> >>,
                       TRUE, DotColonSpace, DigitSet)),
      Trim(LabelledRun(text, << <<"reh", "qaf", "meem">>,
                                <<"alef", "lam", "teh", "alef_hamza_above", "sheen", "yeh",
                                  "reh", "teh_marbuta">> >>,
                       FALSE, ColonSpace, DigitSet))>>)

\* the three patterns, in order:
\*   /Visa\s*No[.:\s]+(\d+)/i
\*   /رقم\s*التأشيرة[:\s]+(\d+)/
\*   /\b\d{10,12}\b/
extractVisaNumber(text) ==
  FirstMatch(
    <<Trim(LabelledRun(text, << <<"V", "i", "s", "a">>, <<"N", "o">> >>,
                       TRUE, DotColonSpace, DigitSet)),
      Trim(LabelledRun(text, << <<"reh", "qaf", "meem">>,
                                <<"alef", "lam", "teh", "alef_hamza_above", "sheen", "yeh",
                                  "reh", "teh_marbuta">> >>,
                       FALSE, ColonSpace, DigitSet)),
      Trim(FirstMatch([i \in 1..Len(text) |-> TakeLen(text, i, VisaNoShapeLen(text, i))]))>>)

(***************************************************************************)
(* extractBirthDate                                                        *)
(***************************************************************************)
\* \d{2}<sep>\d{2}<sep>\d{4} stands at p, each <sep> a character of class S
DateShapeAt(s, p, S) ==
  /\ p >= 1
  /\ p + 9 <= Len(s)
  /\ IsDigit(s[p]) /\ IsDigit(s[p + 1])
  /\ s[p + 2] \in S
  /\ IsDigit(s[p + 3]) /\ IsDigit(s[p + 4])
  /\ s[p + 5] \in S
  /\ \A k \in (p + 6)..(p + 9) : IsDigit(s[k])

\* (<date>) at p: the ten characters, the empty string if no date stands there
TakeDate(s, p, S) == IF DateShapeAt(s, p, S) THEN SubSeq(s, p, p + 9) ELSE <<>>

\* <label>[:\s]+(<date>): the capture of the leftmost match
LabelledDate(s, words, ci, S) ==
  FirstMatch([i \in 1..Len(s) |->
                TakeDate(s, CaptureStart(s, LabelEnd(s, i, words, ci), ColonSpace), S)])

\* \b<date>\b at p
TakeBoundedDate(s, p, S) ==
  IF WordBoundary(s, p) /\ WordBoundary(s, p + 10) THEN TakeDate(s, p, S) ELSE <<>>

\* /\b<date>\b/
BareDate(s, S) == FirstMatch([i \in 1..Len(s) |-> TakeBoundedDate(s, i, S)])

TarikhAlMilad ==
  << <<"teh", "alef", "reh", "yeh", "khah">>,
     <<"alef", "lam", "meem", "yeh", "lam", "alef", "dal">> >>

\* the three patterns, in order:
\*   /Birth\s*Date[:\s]+(\d{2}\/\d{2}\/\d{4})/i
\*   /تاريخ\s*الميلاد[:\s]+(\d{2}\/\d{2}\/\d{4})/
\*   /\b\d{2}\/\d{2}\/\d{4}\b/
extractBirthDate(text) ==
  FirstMatch(
    <<Trim(LabelledDate(text, << <<"B", "i", "r", "t", "h">>, <<"D", "a", "t", "e">> >>,
                        TRUE, {"/"})),
      Trim(LabelledDate(text, TarikhAlMilad, FALSE, {"/"})),
      Trim(BareDate(text, {"/"}))>>)

(***************************************************************************)
(* Global replaces.                                                        *)
(***************************************************************************)
\* s.replace(/re/g, repl), given the length m[i] of re's match at every
\* position i (0: no match there; re never matches the empty string)
Rebuild(s, m, repl) ==
  LET R[i \in 1..(Len(s) + 1)] ==
        IF i > Len(s) THEN <<>>
        ELSE IF m[i] > 0 THEN repl \o R[i + m[i]]
        ELSE <<s[i]>> \o R[i + 1]
  IN  R[1]

\* the length of words[k], 0 if k = 0
LenOrZero(words, k) == IF k = 0 THEN 0 ELSE Len(words[k])

\* the length of the first word of words that stands at i, 0 if none does
WordAt(s, i, words, ci) ==
  LenOrZero(words,
            MinOrZero({k \in 1..Len(words) :
                         IF ci THEN MatchAtCI(s, i, words[k]) ELSE MatchAt(s, i, words[k])}))

\* the same between two word boundaries: \b(?:w1|w2|...)\b
BoundedWordAt(s, i, words, ci) ==
  LenOrZero(words,
            MinOrZero({k \in 1..Len(words) :
                         /\ IF ci THEN MatchAtCI(s, i, words[k])
                            ELSE MatchAt(s, i, words[k])
                         /\ WordBoundary(s, i)
                         /\ WordBoundary(s, i + Len(words[k]))}))

ContainsAny(s, words, ci) == \E i \in 1..Len(s) : WordAt(s, i, words, ci) > 0

\* /Name|الاسم|Full|Applicant/gi
NameLabelAt(s, i) ==
  WordAt(s, i, <<<<"N", "a", "m", "e">>,
               <<"alef", "lam", "alef", "seen", "meem">>,
               <<"F", "u", "l", "l">>,
               <<"A", "p", "p", "l", "i", "c", "a", "n", "t">>>>,
         TRUE)

\* /\s+/g
SpaceRunAt(s, i) == RunLen(s, i, SpaceSet)

\* /\d+/g
DigitRunAt(s, i) == RunLen(s, i, DigitSet)

\* /\n/g
NewlineAt(s, i) == IF s[i] = "\n" THEN 1 ELSE 0

\* /[:,\-.]/g
NamePunctAt(s, i) == IF s[i] \in {":", ",", "-", "."} THEN 1 ELSE 0

\* /[:\-\.،]/g
PassportPunctAt(s, i) == IF s[i] \in {":", "-", ".", "arabic_comma"} THEN 1 ELSE 0

\* /\b[a-z]{1,4}\b/g
ShortLatinAt(s, i) ==
  IF /\ WordBoundary(s, i)
     /\ RunLen(s, i, LowerSet) \in 1..4
     /\ WordBoundary(s, i + RunLen(s, i, LowerSet))
  THEN RunLen(s, i, LowerSet)
  ELSE 0

\* /glis/gi
GlisAt(s, i) == WordAt(s, i, <<<<"g", "l", "i", "s">>>>, TRUE)

\* /\b[A-Z][a-z]+\b/g
CapitalizedWordAt(s, i) ==
  IF /\ WordBoundary(s, i)
     /\ IsUpper(s[i])
     /\ RunLen(s, i + 1, LowerSet) >= 1
     /\ WordBoundary(s, i + 1 + RunLen(s, i + 1, LowerSet))
  THEN 1 + RunLen(s, i + 1, LowerSet)
  ELSE 0

\* /\b(?:KSA|Kingdom|Arabia|Saudi|He|Al|The|Visa|Digital|Embassy)\b/gi
GarbageWordAt(s, i) ==
  BoundedWordAt(s, i, <<<<"K", "S", "A">>,
                      <<"K", "i", "n", "g", "d", "o", "m">>,
                      <<"A", "r", "a", "b", "i", "a">>,
                      <<"S", "a", "u", "d", "i">>,
                      <<"H", "e">>,
                      <<"A", "l">>,
                      <<"T", "h", "e">>,
                      <<"V", "i", "s", "a">>,
                      <<"D", "i", "g", "i", "t", "a", "l">>,
                      <<"E", "m", "b", "a", "s", "s", "y">>>>,
                TRUE)

MinNameLength == 3

\* /^(Al|He|The|Of|In|By)$/i.test(s)
IsRejectedWord(s) ==
  ToLowerCase(s) \in
    {ToLowerCase(w) : w \in {<<"A", "l">>, <<"H", "e">>, <<"T", "h", "e">>, <<"O", "f">>,
                             <<"I", "n">>, <<"B", "y">>}}

\* the length of the match at position i of the pattern named re
MatchLenAt(re, s, i) ==
  CASE re = "NameLabel"       -> NameLabelAt(s, i)
    [] re = "SpaceRun"        -> SpaceRunAt(s, i)
    [] re = "DigitRun"        -> DigitRunAt(s, i)
    [] re = "Newline"         -> NewlineAt(s, i)
    [] re = "NamePunct"       -> NamePunctAt(s, i)
    [] re = "PassportPunct"   -> PassportPunctAt(s, i)
    [] re = "ShortLatin"      -> ShortLatinAt(s, i)
    [] re = "Glis"            -> GlisAt(s, i)
    [] re = "CapitalizedWord" -> CapitalizedWordAt(s, i)
    [] re = "GarbageWord"     -> GarbageWordAt(s, i)

\* s.replace(/re/g, repl) for the pattern named re
ReplaceAll(s, re, repl) == Rebuild(s, [i \in 1..Len(s) |-> MatchLenAt(re, s, i)], repl)

(***************************************************************************)
(* extractName                                                             *)
(***************************************************************************)
\* the Latin noise removed from a candidate that holds an Arabic character
RemoveLatinNoise(s) ==
  Trim(ReplaceAll(Trim(ReplaceAll(Trim(ReplaceAll(s, "ShortLatin", <<>>)),
                                  "Glis", <<>>)),
                  "DigitRun", <<>>))

\* lines 400-403
Normalise(str) ==
  ReplaceAll(Trim(ReplaceAll(ReplaceAll(ReplaceAll(str, "Newline", <<" ">>),
                                        "NameLabel", <<>>),
                             "NamePunct", <<" ">>)),
             "SpaceRun", <<" ">>)

\* lines 406-410
DropLatinNoise(s) == IF HasArabic(s) THEN RemoveLatinNoise(s) ELSE s

\* line 413
DropGarbageWords(s) == Trim(ReplaceAll(s, "GarbageWord", <<>>))

\* Mutation of RejectOrTrim: the test of line 416 is left out
RejectOrTrimUnchecked(s) == Trim(s)

\* lines 416-420
RejectOrTrim(s) ==
  IF IsRejectedWord(s) \/ Len(s) < MinNameLength THEN <<>> ELSE Trim(s)

cleanCandidate(str) == RejectOrTrim(DropGarbageWords(DropLatinNoise(Normalise(str))))

\* [:\s,.|]
NameSep == {":", ",", ".", "|"} \cup SpaceSet

\* (?=(?:Birth|...|Duration)) under the i flag
NextFieldAt(s, p) ==
  WordAt(s, p, <<<<"B", "i", "r", "t", "h">>,
               <<"teh", "alef", "reh", "yeh", "khah">>,
               <<"P", "a", "s", "s", "p", "o", "r", "t">>,
               <<"reh", "qaf", "meem">>,
               <<"N", "a", "t", "i", "o", "n", "a", "l", "i", "t", "y">>,
               <<"alef", "lam", "jeem", "noon", "seen", "yeh", "teh_marbuta">>,
               <<"I", "s", "s", "u", "e">>,
               <<"V", "i", "s", "a">>,
               <<"D", "u", "r", "a", "t", "i", "o", "n">>>>,
         TRUE) > 0

\* /(?:Name|الاسم)[:\s,.|]+([\s\S]+?)(?=(?:Birth|...|Duration))/i matched with
\* its label at i: the capture as [from, to], <<>> if there is no match.  The
\* separators are taken greedily and the capture lazily: the capture starts
\* after the whole run of separators and ends before the first field label
\* that leaves it non-empty; failing that, the run gives back one separator,
\* which is the capture when a field label follows the run at once.
\* c is the position after the n separators, p0 the first field label after c
AnchoredSpanFrom(s, c, n, p0) ==
  IF n = 0 THEN <<>>
  ELSE IF p0 # 0 THEN <<c, p0 - 1>>
  ELSE IF n >= 2 /\ NextFieldAt(s, c) THEN <<c - 1, c - 1>>
  ELSE <<>>

\* the first position after c at which a field label stands, 0 if there is none
FirstFieldAfter(s, c) ==
  MinOrZero({p \in 1..Len(s) : p >= c + 1 /\ NextFieldAt(s, p)})

\* the label ends before e and n separators follow it
AnchoredSpanAfter(s, e, n) == AnchoredSpanFrom(s, e + n, n, FirstFieldAfter(s, e + n))

\* the label at i has length l (0: no label stands at i)
AnchoredSpanOfLabel(s, i, l) ==
  IF l = 0 THEN <<>> ELSE AnchoredSpanAfter(s, i + l, RunLen(s, i + l, NameSep))

AnchoredSpanAt(s, i) ==
  AnchoredSpanOfLabel(s, i, WordAt(s, i, <<<<"N", "a", "m", "e">>,
                                           <<"alef", "lam", "alef", "seen", "meem">>>>, TRUE))

\* the characters of text in the span [from, to], the empty string for <<>>
SpanText(text, span) == IF span = <<>> THEN <<>> ELSE SubSeq(text, span[1], span[2])

\* match[1] of multilinePattern, <<>> if it does not match
AnchoredSpan(text) ==
  FirstMatch([i \in 1..Len(text) |-> SpanText(text, AnchoredSpanAt(text, i))])

\* the position of the last character of the line that holds position c
LineEnd(s, c) ==
  IF \E j \in c..Len(s) : s[j] = "\n"
  THEN MinOrZero({j \in c..Len(s) : s[j] = "\n"}) - 1
  ELSE Len(s)

\* /<label><sep>+([^\n]+)/ matched with its label at i: the capture as
\* [from, to], <<>> if there is no match.  The run of separators gives back
\* separators until what follows it is a character other than a newline.
\* the capture starts at c (0: no match) and runs to the end of the line
LineFrom(s, c) == IF c = 0 THEN <<>> ELSE <<c, LineEnd(s, c)>>

\* the label ends before e and n separators follow it: the position at which
\* the capture starts, 0 if there is no match
LineStart(s, e, n) ==
  MaxOrZero({e + k : k \in {j \in 1..n : e + j <= Len(s) /\ s[e + j] # "\n"}})

\* the label at i has length l (0: no label stands at i)
SingleLineOfLabel(s, i, l, Sep) ==
  IF l = 0 THEN <<>> ELSE LineFrom(s, LineStart(s, i + l, RunLen(s, i + l, Sep)))

SingleLineAt(s, i, label, ci, Sep) ==
  SingleLineOfLabel(s, i, WordAt(s, i, <<label>>, ci), Sep)

SingleLine(text, label, ci, Sep) ==
  FirstMatch([i \in 1..Len(text) |-> SpanText(text, SingleLineAt(text, i, label, ci, Sep))])

\* Strategy 1: rawName
RawName(text) ==
  FirstMatch(<<AnchoredSpan(text),
               SingleLine(text, <<"N", "a", "m", "e">>, TRUE, NameSep),
               SingleLine(text, <<"alef", "lam", "alef", "seen", "meem">>, FALSE,
                          ColonSpace)>>)

\* the Arabic headers and labels of line 462
NameHeaderWords ==
  <<<<"alef", "lam", "meem", "meem", "lam", "kaf", "teh_marbuta">>,
    <<"alef", "lam", "ain", "reh", "beh", "yeh", "teh_marbuta">>,
    <<"alef", "lam", "seen", "ain", "waw", "dal", "yeh", "teh_marbuta">>,
    <<"waw", "zain", "alef", "reh", "teh_marbuta">>,
    <<"alef", "lam", "khah", "alef", "reh", "jeem", "yeh", "teh_marbuta">>,
    <<"teh", "alef_hamza_above", "sheen", "yeh", "reh", "teh_marbuta">>,
    <<"zain", "yeh", "alef", "reh", "teh_marbuta">>,
    <<"meem", "reh", "waw", "reh">>,
    <<"jeem", "waw", "alef", "zain">>,
    <<"teh", "alef", "reh", "yeh", "khah">>,
    <<"alef", "lam", "jeem", "noon", "seen", "yeh", "teh_marbuta">>,
    <<"alef", "lam", "meem", "heh", "noon", "teh_marbuta">>,
    <<"sad", "alef", "hah", "beh">>,
    <<"alef", "lam", "ain", "meem", "lam">>>>

\* /^Kingdom|Ministry|Visa|Passport|Date|Duration|Place/i.test(line): the ^
\* belongs to the first alternative only
IsHeaderLine(line) ==
  \/ MatchAtCI(line, 1, <<"K", "i", "n", "g", "d", "o", "m">>)
  \/ ContainsAny(line, <<<<"M", "i", "n", "i", "s", "t", "r", "y">>,
                         <<"V", "i", "s", "a">>,
                         <<"P", "a", "s", "s", "p", "o", "r", "t">>,
                         <<"D", "a", "t", "e">>,
                         <<"D", "u", "r", "a", "t", "i", "o", "n">>,
                         <<"P", "l", "a", "c", "e">>>>, TRUE)

MaxNameLength == 50

MinTextLength == 10

\* the line passes the three `continue`s of the Strategy 2 scan and its
\* cleaned candidate is accepted
IsNameLine(line, candidate) ==
  /\ HasArabic(Trim(line))
  /\ ~IsHeaderLine(line)
  /\ ~ContainsAny(Trim(line), NameHeaderWords, FALSE)
  /\ Len(SplitChar(candidate, " ")) >= 2
  /\ Len(candidate) < MaxNameLength

\* the candidate if the scan stops at the line, the empty string if it goes on
AcceptedCandidate(line, candidate) == IF IsNameLine(line, candidate) THEN candidate ELSE <<>>

\* the for loop of Strategy 2: the candidate it stops at, the empty string if
\* it runs to the end
ScanNameLines(lines) ==
  FirstMatch([i \in 1..Len(lines) |->
                AcceptedCandidate(lines[i], cleanCandidate(Trim(lines[i])))])

\* Mutation of NeedsLineScan: the text may be of any length.
NeedsLineScanOfAnyText(finalName, text) ==
  finalName = <<>> \/ Len(finalName) < MinNameLength \/ ~HasArabic(finalName)

\* Strategy 2 is entered
NeedsLineScan(finalName, text) ==
  /\ finalName = <<>> \/ Len(finalName) < MinNameLength \/ ~HasArabic(finalName)
  /\ Len(text) > MinTextLength

\* finalName after Strategy 2, scanned being what its loop stops at
PreferScanned(finalName, text, scanned) ==
  IF NeedsLineScan(finalName, text) /\ scanned # <<>> THEN scanned ELSE finalName

extractName(text) ==
  PreferScanned(cleanCandidate(RawName(text)), text, ScanNameLines(SplitLines(text)))

(***************************************************************************)
(* extractArabicNameFromPassport                                           *)
(***************************************************************************)
\* the Arabic headers and labels of line 137
PassportHeaderWords ==
  <<<<"alef", "lam", "meem", "meem", "lam", "kaf", "teh_marbuta">>,
    <<"alef", "lam", "ain", "reh", "beh", "yeh", "teh_marbuta">>,
    <<"alef", "lam", "meem", "ghain", "reh", "beh", "yeh", "teh_marbuta">>,
    <<"alef", "lam", "seen", "ain", "waw", "dal", "yeh", "teh_marbuta">>,
    <<"waw", "zain", "alef", "reh", "teh_marbuta">>,
    <<"alef", "lam", "khah", "alef", "reh", "jeem", "yeh", "teh_marbuta">>,
    <<"teh", "alef_hamza_above", "sheen", "yeh", "reh", "teh_marbuta">>,
    <<"zain", "yeh", "alef", "reh", "teh_marbuta">>,
    <<"meem", "reh", "waw", "reh">>,
    <<"jeem", "waw", "alef", "zain">>,
    <<"teh", "alef", "reh", "yeh", "khah">>,
    <<"alef", "lam", "jeem", "noon", "seen", "yeh", "teh_marbuta">>,
    <<"alef", "lam", "meem", "heh", "noon", "teh_marbuta">>,
    <<"sad", "alef", "hah", "beh">>,
    <<"alef", "lam", "ain", "meem", "lam">>,
    <<"alef", "lam", "alef", "seen", "meem">>,
    <<"alef", "lam", "meem", "yeh", "lam", "alef", "dal">>,
    <<"alef", "lam", "alef_hamza_below", "sad", "dal", "alef", "reh">>,
    <<"alef", "lam", "sad", "lam", "alef", "hah", "yeh", "teh_marbuta">>,
    <<"reh", "qaf", "meem">>>>

\* /^(PASSPORT|PASSEPORT|KINGDOM|ROYAUME|MAROC|MOROCCO|MAR)/i
StartsWithPassportHeader(s) ==
  WordAt(s, 1, <<<<"P", "A", "S", "S", "P", "O", "R", "T">>,
                 <<"P", "A", "S", "S", "E", "P", "O", "R", "T">>,
                 <<"K", "I", "N", "G", "D", "O", "M">>,
                 <<"R", "O", "Y", "A", "U", "M", "E">>,
                 <<"M", "A", "R", "O", "C">>,
                 <<"M", "O", "R", "O", "C", "C", "O">>,
                 <<"M", "A", "R">>>>, TRUE) > 0

\* the candidate of a line of the passport bio page
PassportNameCandidate(trimmed) ==
  Trim(ReplaceAll(
         Trim(ReplaceAll(
                Trim(ReplaceAll(ReplaceAll(ReplaceAll(trimmed, "NameLabel", <<>>),
                                           "PassportPunct", <<" ">>),
                                "SpaceRun", <<" ">>)),
                "CapitalizedWord", <<>>)),
         "DigitRun", <<>>))

NotEmpty(w) == w # <<>>

\* candidate.split(' ').filter(w => w.length > 0)
Words(candidate) == SelectSeq(SplitChar(candidate, " "), NotEmpty)

\* (candidate.match(/[؀-ۿ]/g) || []).length
ArabicCount(s) == Len(SelectSeq(s, IsArabic))

MinPassportNameLength == 5

\* Mutation of IsPrimarilyArabic: a ratio of exactly 0.7 passes.
IsSeventyPercentArabic(candidate) ==
  10 * ArabicCount(candidate) >= 7 * Len(RemoveSpaces(candidate))

\* arabicChars / totalChars > 0.7
IsPrimarilyArabic(candidate) ==
  10 * ArabicCount(candidate) > 7 * Len(RemoveSpaces(candidate))

\* the line passes the three `continue`s and both `if`s of the scan
IsPassportNameLine(trimmed, candidate) ==
  /\ HasArabic(trimmed)
  /\ ~ContainsAny(trimmed, PassportHeaderWords, FALSE)
  /\ ~StartsWithPassportHeader(trimmed)
  /\ Len(Words(candidate)) >= 2
  /\ Len(candidate) >= MinPassportNameLength
  /\ Len(candidate) < MaxNameLength
  /\ IsPrimarilyArabic(candidate)

\* the candidate if the loop returns at the line, the empty string if it goes on
ReturnedCandidate(trimmed, candidate) ==
  IF IsPassportNameLine(trimmed, candidate) THEN candidate ELSE <<>>

\* one pass of the loop over a trimmed line
PassportNameOfLine(trimmed) == ReturnedCandidate(trimmed, PassportNameCandidate(trimmed))

\* the for loop: what it returns, the empty string (null) if it runs to the end
ScanPassportLines(lines) ==
  FirstMatch([i \in 1..Len(lines) |-> PassportNameOfLine(Trim(lines[i]))])

extractArabicNameFromPassport(text) == ScanPassportLines(SplitLines(text))

(***************************************************************************)
(* transliterateArabic and the two email generators                        *)
(***************************************************************************)
\* arabicToLatinMap: its one-character keys (the two-character key 'لا' is
\* never looked up, the loop reads one character at a time)
arabicToLatinMap ==
  [ alef |-> <<"a">>, alef_hamza_above |-> <<"a">>, alef_hamza_below |-> <<"e">>,
    alef_madda_above |-> <<"a">>,
    beh |-> <<"b">>, teh |-> <<"t">>, theh |-> <<"t", "h">>,
    jeem |-> <<"j">>, hah |-> <<"h">>, khah |-> <<"k", "h">>,
    dal |-> <<"d">>, thal |-> <<"d", "h">>, reh |-> <<"r">>, zain |-> <<"z">>,
    seen |-> <<"s">>, sheen |-> <<"s", "h">>, sad |-> <<"s">>, dad |-> <<"d">>,
    tah |-> <<"t">>, zah |-> <<"z">>, ain |-> <<"a">>, ghain |-> <<"g", "h">>,
    feh |-> <<"f">>, qaf |-> <<"q">>, kaf |-> <<"k">>, lam |-> <<"l">>,
    meem |-> <<"m">>, noon |-> <<"n">>, heh |-> <<"h">>, waw |-> <<"w">>,
    yeh |-> <<"y">>, alef_maksura |-> <<"a">>,
    teh_marbuta |-> <<"a", "h">>, hamza |-> <<"a">>, waw_hamza_above |-> <<"u">>,
    yeh_hamza_above |-> <<"e">> ]

\* /[0-9\sA-Za-z]/
IsKeptAsIs(c) == IsDigit(c) \/ IsSpace(c) \/ IsAlpha(c)

RECURSIVE transliterateArabic(_)
transliterateArabic(arabicText) ==
  IF arabicText = <<>> THEN <<>>
  ELSE LET char == Head(arabicText)
           out == IF char \in DOMAIN arabicToLatinMap THEN arabicToLatinMap[char]
                  ELSE IF IsKeptAsIs(char) THEN <<char>>
                  ELSE <<>>
       IN  out \o transliterateArabic(Tail(arabicText))

\* s.split(/\s+/)
SplitSpaces(s) ==
  LET R[i \in 1..(Len(s) + 1)] ==
        IF i > Len(s) THEN <<<<>>>>
        ELSE IF IsSpace(s[i])
        THEN <<<<>>>> \o R[i + RunLen(s, i, SpaceSet)]
        ELSE LET rest == R[i + 1]
             IN  <<<<s[i]>> \o Head(rest)>> \o Tail(rest)
  IN  R[1]

EmailDomain == <<"@", "c", "o", "m", "f", "y", "t", "h", "i", "n", "g", "s", ".", "c", "o", "m">>

PrefixLength == 3

\* `${lastName}${firstName.substring(0, 3)}@comfythings.com`
EmailOf(lastName, firstName) ==
  lastName \o Substring(firstName, 0, PrefixLength) \o EmailDomain

\* Mutation of EmailFromParts: the prefix is built in the order of generateEmail,
\* the first part and three characters of the second
EmailFromPartsFirstSecond(detectedArabicName, parts) ==
  IF detectedArabicName # <<>> /\ HasArabic(detectedArabicName) /\ Len(parts) >= 2
  THEN EmailOf(ToLowerCase(parts[1]), ToLowerCase(parts[2]))
  ELSE <<>>

\* lines 575-588, parts being the transliterated name split on whitespace
EmailFromParts(detectedArabicName, parts) ==
  IF detectedArabicName # <<>> /\ HasArabic(detectedArabicName) /\ Len(parts) >= 2
  THEN EmailOf(ToLowerCase(parts[Len(parts)]), ToLowerCase(parts[1]))
  ELSE <<>>

\* Mutation of generateEmailFromPassport: a detected name with an Arabic
\* character is used before the MRZ names
generateEmailFromPassportNameFirst(mrzData, detectedArabicName) ==
  IF detectedArabicName # <<>> /\ HasArabic(detectedArabicName)
  THEN EmailFromParts(detectedArabicName,
                      SplitSpaces(Trim(transliterateArabic(detectedArabicName))))
  ELSE IF mrzData # Null /\ mrzData.lastName # <<>> /\ mrzData.firstName # <<>>
  THEN EmailOf(RemoveSpaces(ToLowerCase(mrzData.lastName)),
               RemoveSpaces(ToLowerCase(mrzData.firstName)))
  ELSE <<>>

generateEmailFromPassport(mrzData, detectedArabicName) ==
  IF mrzData # Null /\ mrzData.lastName # <<>> /\ mrzData.firstName # <<>>
  THEN EmailOf(RemoveSpaces(ToLowerCase(mrzData.lastName)),
               RemoveSpaces(ToLowerCase(mrzData.firstName)))
  ELSE EmailFromParts(detectedArabicName,
                      SplitSpaces(Trim(transliterateArabic(detectedArabicName))))

\* [A-Z][a-z]+ stands at p: its length, 0 if it does not
CapitalizedAt(s, p) ==
  IF p >= 1 /\ p <= Len(s) /\ IsUpper(s[p]) /\ RunLen(s, p + 1, LowerSet) >= 1
  THEN 1 + RunLen(s, p + 1, LowerSet)
  ELSE 0

\* /([A-Z][a-z]+)\s+([A-Z][a-z]+)/ matched at i: <<first, second, end>>, <<>> if
\* there is no match
\* the first word has length a, the second stands at q and has length b
EnglishNameWords(s, i, a, q, b) ==
  IF a = 0 \/ q = i + a \/ b = 0 THEN <<>>
  ELSE <<SubSeq(s, i, i + a - 1), SubSeq(s, q, q + b - 1), q + b>>

\* the first word has length a, the second stands at q
EnglishNameSecond(s, i, a, q) == EnglishNameWords(s, i, a, q, CapitalizedAt(s, q))

\* the first word has length a
EnglishNameFirst(s, i, a) == EnglishNameSecond(s, i, a, i + a + RunLen(s, i + a, SpaceSet))

EnglishNameAt(s, i) == EnglishNameFirst(s, i, CapitalizedAt(s, i))

\* /^(Name|Passport|...|Kingdom)/i.test(first)
IsFieldLabel(first) ==
  WordAt(first, 1, <<<<"N", "a", "m", "e">>, <<"P", "a", "s", "s", "p", "o", "r", "t">>,
                   <<"V", "i", "s", "a">>, <<"B", "i", "r", "t", "h">>, <<"D", "a", "t", "e">>,
                   <<"P", "l", "a", "c", "e">>, <<"T", "y", "p", "e">>, <<"C", "o", "d", "e">>,
                   <<"S", "e", "x">>, <<"N", "a", "t", "i", "o", "n", "a", "l", "i", "t", "y">>,
                   <<"S", "a", "u", "d", "i">>, <<"D", "i", "g", "i", "t", "a", "l">>,
                   <<"M", "i", "n", "i", "s", "t", "r", "y">>, <<"U", "m", "r", "a", "h">>,
                   <<"H", "a", "j", "j">>, <<"K", "i", "n", "g", "d", "o", "m">>>>,
         TRUE) > 0

\* englishNamePattern.exec(text) with lastIndex at from, matches[i] being the
\* match of the pattern at position i: the position of the match, 0 if none
NextMatch(matches, from) ==
  MinOrZero({i \in 1..Len(matches) : i >= from /\ matches[i] # <<>>})

\* the while loop over englishNamePattern.exec(text): a match whose first word
\* is a field label is skipped and the search resumes after it
EmailOfMatches(matches) ==
  LET R[from \in 1..(Len(matches) + 1)] ==
        IF NextMatch(matches, from) = 0 THEN <<>>
        ELSE IF IsFieldLabel(matches[NextMatch(matches, from)][1])
        THEN R[matches[NextMatch(matches, from)][3]]
        ELSE ToLowerCase(matches[NextMatch(matches, from)][1]
                         \o Substring(matches[NextMatch(matches, from)][2], 0, PrefixLength))
               \o EmailDomain
  IN  R[1]

EnglishNameEmail(text) == EmailOfMatches([i \in 1..Len(text) |-> EnglishNameAt(text, i)])

\* Mutation of EmailOfParts: the prefix is built in the order of the passport
\* fallback, the last part and three characters of the first
EmailOfPartsLastFirst(text, detectedArabicName, parts) ==
  IF detectedArabicName # <<>> /\ HasArabic(detectedArabicName) /\ Len(parts) >= 2
  THEN ToLowerCase(parts[Len(parts)]) \o Substring(ToLowerCase(parts[1]), 0, PrefixLength)
         \o EmailDomain
  ELSE IF detectedArabicName # <<>> /\ HasArabic(detectedArabicName) /\ Len(parts) = 1
  THEN ToLowerCase(parts[1]) \o EmailDomain
  ELSE EnglishNameEmail(text)

\* lines 597-610, parts being the transliterated name split on whitespace
EmailOfParts(text, detectedArabicName, parts) ==
  IF detectedArabicName # <<>> /\ HasArabic(detectedArabicName) /\ Len(parts) >= 2
  THEN ToLowerCase(parts[1]) \o Substring(ToLowerCase(parts[2]), 0, PrefixLength)
         \o EmailDomain
  ELSE IF detectedArabicName # <<>> /\ HasArabic(detectedArabicName) /\ Len(parts) = 1
  THEN ToLowerCase(parts[1]) \o EmailDomain
  ELSE EnglishNameEmail(text)

generateEmail(text, detectedArabicName) ==
  EmailOfParts(text, detectedArabicName,
               SplitSpaces(Trim(transliterateArabic(detectedArabicName))))

(***************************************************************************)
(* extractPassportData and its two fallback extractors                     *)
(***************************************************************************)
\* the value undefined
Undefined == <<"undefined">>

\* a string value is truthy
Truthy(v) == v # <<>> /\ v # Undefined

\* (?:l1|l2|...) matched at i, each label words separated by \s*: the position
\* after the first label that matches, 0 if none does
FirstNonZero(ends) ==
  IF \A k \in 1..Len(ends) : ends[k] = 0 THEN 0
  ELSE ends[MinOrZero({k \in 1..Len(ends) : ends[k] # 0})]

AnyLabelEnd(s, i, labels, ci) ==
  FirstNonZero([k \in 1..Len(labels) |-> LabelEnd(s, i, labels[k], ci)])

\* [A-Z]{2}[0-9]{7,9} stands at p (ci: under the i flag): its length, 0 if not
TwoLetterNumberAt(s, p, ci) ==
  IF /\ p >= 1
     /\ p + 1 <= Len(s)
     /\ IF ci THEN IsAlpha(s[p]) /\ IsAlpha(s[p + 1]) ELSE IsUpper(s[p]) /\ IsUpper(s[p + 1])
     /\ RunLen(s, p + 2, DigitSet) >= 7
  THEN 2 + Min(9, RunLen(s, p + 2, DigitSet))
  ELSE 0

\* /(?:Passport|...|رقم\s*الجواز)[:\s]+([A-Z]{2}[0-9]{7,9})/i
\* ([A-Z]{2}[0-9]{7,9}) at p under the i flag, the empty string if p = 0
TakeTwoLetterNumber(s, p) == IF p = 0 THEN <<>> ELSE TakeLen(s, p, TwoLetterNumberAt(s, p, TRUE))

PassportPageNoLabelled(text) ==
  FirstMatch([i \in 1..Len(text) |->
                TakeTwoLetterNumber(
                  text,
                  CaptureStart(
                    text,
                    AnyLabelEnd(
                      text, i,
                      << << <<"P", "a", "s", "s", "p", "o", "r", "t">> >>,
                         << <<"P", "a", "s", "s", "e", "p", "o", "r", "t">> >>,
                         << <<"N", "degree_sign">>, <<"d", "e">>,
                            <<"P", "a", "s", "s", "e", "p", "o", "r", "t">> >>,
                         << <<"reh", "qaf", "meem">>,
                            <<"alef", "lam", "jeem", "waw", "alef", "zain">> >> >>,
                      TRUE),
                    ColonSpace))])

\* \b([A-Z]{2}[0-9]{7,9})\b at i: the length of the match, 0 if there is none
BoundedTwoLetterNumberAt(s, i) ==
  IF /\ WordBoundary(s, i)
     /\ TwoLetterNumberAt(s, i, FALSE) > 0
     /\ RunLen(s, i + 2, DigitSet) <= 9
     /\ WordBoundary(s, i + TwoLetterNumberAt(s, i, FALSE))
  THEN TwoLetterNumberAt(s, i, FALSE)
  ELSE 0

\* /\b([A-Z]{2}[0-9]{7,9})\b/
PassportPageNoBare(text) ==
  FirstMatch([i \in 1..Len(text) |-> TakeLen(text, i, BoundedTwoLetterNumberAt(text, i))])

extractPassportNumberFromPassport(text) ==
  FirstMatch(<<Trim(PassportPageNoLabelled(text)), Trim(PassportPageNoBare(text))>>)

\* /(?:Date\s*of\s*birth|...)[:\s]+([0-9]{2}[\/\-][0-9]{2}[\/\-][0-9]{4})/i
PassportPageDateLabelled(text) ==
  FirstMatch([i \in 1..Len(text) |->
                TakeDate(
                  text,
                  CaptureStart(
                    text,
                    AnyLabelEnd(
                      text, i,
                      << << <<"D", "a", "t", "e">>, <<"o", "f">>, <<"b", "i", "r", "t", "h">> >>,
                         << <<"D", "a", "t", "e">>, <<"d", "e">>,
                            <<"n", "a", "i", "s", "s", "a", "n", "c", "e">> >>,
                         TarikhAlMilad >>,
                      TRUE),
                    ColonSpace),
                  {"/", "-"})])

\* s.replace(/-/g, '/')
DashToSlash(s) == [i \in 1..Len(s) |-> IF s[i] = "-" THEN "/" ELSE s[i]]

extractBirthDateFromPassport(text) ==
  DashToSlash(FirstMatch(<<PassportPageDateLabelled(text), BareDate(text, {"/", "-"})>>))

\* v || undefined
OrUndefined(v) == IF v # <<>> THEN v ELSE Undefined

extractPassportData(text, mrzData) ==
  [passportNumber |-> IF mrzData # Null THEN mrzData.passportNumber
                      ELSE extractPassportNumberFromPassport(text),
   birthDate      |-> IF mrzData # Null THEN mrzData.dateOfBirth
                      ELSE extractBirthDateFromPassport(text),
   arabicName     |-> OrUndefined(extractArabicNameFromPassport(text))]

(***************************************************************************)
(* extractVisaData: one call, from the upload to the returned record       *)
(***************************************************************************)
VARIABLES
  pc,                   \* the statement the call is at
  file,                 \* the arguments: the file's type, convertedImage given
  imageToProcess,       \* "file", "convertedImage", "rasterized"
  text,                 \* result.data.text
  docType,
  mrzData,
  extractedArabicName,
  photoSource,
  profilePhoto,
  visaData,             \* the record the call resolves to
  isModelLoaded,        \* the module-level flag of the face detection model
  modelLoads,           \* history: the loads of the model started, failed, succeeded
  photoCalls,           \* the calls of extractProfilePhoto in flight, by call
  isProcessing,         \* OCRPage: the state isProcessing
  imagePreview,         \* OCRPage: the upload whose preview is shown, 0 for ''
  shownUpload,          \* OCRPage: the upload whose record setVisaData stored, 0 for none
  uploads,              \* OCRPage: the calls of processFile, in the order they started
  mounted,              \* App: whether the component has been mounted
  localStorage,         \* App: the item clientsHistory of the local storage
  clientsHistory,       \* App: the state clientsHistory
  extractedData,        \* App: the state extractedData
  idsGenerated          \* history: the number of calls of generateId

vars == <<pc, file, imageToProcess, text, docType, mrzData, extractedArabicName,
          photoSource, profilePhoto, visaData, isModelLoaded, modelLoads, photoCalls,
          isProcessing, imagePreview, shownUpload, uploads,
          mounted, localStorage, clientsHistory, extractedData, idsGenerated>>

\* the variables of OCRPage
pageVars == <<isProcessing, imagePreview, shownUpload, uploads>>

\* the variables of App
historyVars == <<mounted, localStorage, clientsHistory, extractedData, idsGenerated>>

\* useState<BadgeData>({ fullName: '', ... }): the initial extractedData
EmptyBadgeData ==
  [fullName |-> <<>>, passportNumber |-> <<>>, visaNumber |-> <<>>, birthDate |-> <<>>,
   medinaHotel |-> <<>>, meccaHotel |-> <<>>, roomType |-> <<>>, email |-> <<>>,
   clientPhoto |-> Undefined]

\* an item of the local storage: absent, a text that is not JSON, the JSON of a
\* value that is not an array, or the JSON of the array items
StoredItem(kind, items) == [kind |-> kind, items |-> items]

\* JSON.stringify(clientsHistory)
JSONStringify(list) == StoredItem("array", list)

\* OCRPage and App at rest: nothing uploaded, an empty history
AppIdle ==
  /\ isProcessing = FALSE
  /\ imagePreview = 0
  /\ shownUpload = 0
  /\ uploads = <<>>
  /\ mounted = TRUE
  /\ localStorage = JSONStringify(<<>>)
  /\ clientsHistory = <<>>
  /\ extractedData = EmptyBadgeData
  /\ idsGenerated = 0

\* the variables of one extractVisaData call
pipelineVars == <<pc, file, imageToProcess, text, docType, mrzData, extractedArabicName,
                  photoSource, profilePhoto, visaData>>

\* the variables of the photo locator
photoVars == <<isModelLoaded, modelLoads, photoCalls>>

\* let isModelLoaded = false, and no call of extractProfilePhoto yet
PhotoIdle ==
  /\ isModelLoaded = FALSE
  /\ modelLoads = [started |-> 0, failed |-> FALSE, succeeded |-> FALSE]
  /\ photoCalls = <<>>

\* no value yet
None == [none |-> TRUE]

\* an exception thrown inside the try block
Thrown == [thrown |-> TRUE]

\* the error the catch block throws: the call rejects with it
GenericError == [error |-> "extraction failed"]

\* what extractProfilePhoto resolves to: '', the cropped face, the full image
CroppedFace == <<"data:image/jpeg;face">>

FullImage == <<"data:image/jpeg;full">>

PhotoResults == {<<>>, CroppedFace, FullImage}

\* v || ''
OrEmpty(v) == IF Truthy(v) THEN v ELSE <<>>

\* `${mrzData.firstName} ${mrzData.lastName}`: reading a property of null throws
MRZName(m) ==
  IF m = Null THEN Thrown ELSE [value |-> m.firstName \o <<" ">> \o m.lastName]

\* Mutation of FinalFullName: the general extracted name is preferred to the
\* name of the bio page
FinalFullNameExtractedFirst(passportData, name, m) ==
  IF Truthy(name) THEN [value |-> name]
  ELSE IF Truthy(passportData.arabicName) THEN [value |-> passportData.arabicName]
  ELSE MRZName(m)

\* passportData.arabicName || extractedArabicName || `${...} ${...}`
FinalFullName(passportData, name, m) ==
  IF Truthy(passportData.arabicName) THEN [value |-> passportData.arabicName]
  ELSE IF Truthy(name) THEN [value |-> name]
  ELSE MRZName(m)

\* Mutation of UsesPassportBranch: mrzData is not tested
UsesPassportBranchUnguarded(type, m) == type = "passport"

\* docType === 'passport' && mrzData
UsesPassportBranch(type, m) == type = "passport" /\ m # Null

\* lines 273-282
PassportFields(passportData, finalFullName, m, photo) ==
  IF finalFullName = Thrown THEN Thrown
  ELSE [fullName       |-> finalFullName.value,
        email          |-> generateEmailFromPassport(m, finalFullName.value),
        passportNumber |-> OrEmpty(passportData.passportNumber),
        visaNumber     |-> <<>>,
        birthDate      |-> OrEmpty(passportData.birthDate),
        clientPhoto    |-> photo]

\* lines 271-282
PassportRecordOf(passportData, m, name, photo) ==
  PassportFields(passportData, FinalFullName(passportData, name, m), m, photo)

PassportRecord(t, m, name, photo) ==
  PassportRecordOf(extractPassportData(t, m), m, name, photo)

\* Mutation of VisaRecord: the passport number and the birth date are left empty
VisaRecordWithoutFallback(t, name, photo) ==
  [fullName       |-> name,
   email          |-> generateEmail(t, name),
   passportNumber |-> <<>>,
   visaNumber     |-> extractVisaNumber(t),
   birthDate      |-> <<>>,
   clientPhoto    |-> photo]

VisaRecord(t, name, photo) ==
  [fullName       |-> name,
   email          |-> generateEmail(t, name),
   passportNumber |-> extractPassportNumber(t),
   visaNumber     |-> extractVisaNumber(t),
   birthDate      |-> extractBirthDate(t),
   clientPhoto    |-> photo]

BuildVisaData(t, type, m, name, photo) ==
  IF UsesPassportBranch(type, m)
  THEN PassportRecord(t, m, name, photo)
  ELSE VisaRecord(t, name, photo)

\* Mutation of PhotoSourceOf: the photo is always located on the uploaded file.
PhotoSourceOfUpload(f, image) == "file"

\* (file.type === 'application/pdf' && (convertedImage || imageToProcess instanceof File))
\*   ? (convertedImage || imageToProcess) : file
PhotoSourceOf(f, image) ==
  IF f.type = "application/pdf"
  THEN IF f.convertedImage THEN "convertedImage" ELSE image
  ELSE "file"

Files == [type : {"application/pdf", "image/jpeg"}, convertedImage : BOOLEAN]

Init ==
  /\ pc = "start"
  /\ file \in Files
  /\ imageToProcess = "file"
  /\ text = <<>>
  /\ docType = "none"
  /\ mrzData = Null
  /\ extractedArabicName = <<>>
  /\ photoSource = "none"
  /\ profilePhoto = <<>>
  /\ visaData = None
  /\ PhotoIdle
  /\ AppIdle

\* lines 225-234, up to the first await
Begin ==
  /\ pc = "start"
  /\ IF file.type = "application/pdf"
     THEN IF file.convertedImage
          THEN imageToProcess' = "convertedImage" /\ pc' = "recognize"
          ELSE imageToProcess' = imageToProcess /\ pc' = "rasterize"
     ELSE imageToProcess' = "file" /\ pc' = "recognize"
  /\ UNCHANGED <<file, text, docType, mrzData, extractedArabicName, photoSource,
                 profilePhoto, visaData>>
  /\ UNCHANGED photoVars
  /\ UNCHANGED <<pageVars, historyVars>>

\* convertPdfToImage resolves
Rasterize ==
  /\ pc = "rasterize"
  /\ imageToProcess' = "rasterized"
  /\ pc' = "recognize"
  /\ UNCHANGED <<file, text, docType, mrzData, extractedArabicName, photoSource,
                 profilePhoto, visaData>>
  /\ UNCHANGED photoVars
  /\ UNCHANGED <<pageVars, historyVars>>

\* Mutation of Reject: the catch block starts the extraction over.
RejectAndRetry ==
  /\ pc' = "start"
  /\ visaData' = visaData
  /\ UNCHANGED <<file, imageToProcess, text, docType, mrzData, extractedArabicName,
                 photoSource, profilePhoto>>
  /\ UNCHANGED photoVars
  /\ UNCHANGED <<pageVars, historyVars>>

\* the catch block: the call rejects with the generic error
Reject ==
  /\ pc' = "failed"
  /\ visaData' = GenericError
  /\ UNCHANGED <<file, imageToProcess, text, docType, mrzData, extractedArabicName,
                 photoSource, profilePhoto>>
  /\ UNCHANGED photoVars
  /\ UNCHANGED <<pageVars, historyVars>>

\* convertPdfToImage rejects
RasterizeFails == pc = "rasterize" /\ Reject

\* Tesseract.recognize resolves with the text t
Recognize(T) ==
  /\ pc = "recognize"
  /\ \E t \in T : text' = t
  /\ pc' = "classify"
  /\ UNCHANGED <<file, imageToProcess, docType, mrzData, extractedArabicName,
                 photoSource, profilePhoto, visaData>>
  /\ UNCHANGED photoVars
  /\ UNCHANGED <<pageVars, historyVars>>

\* Tesseract.recognize rejects
RecognizeFails == pc = "recognize" /\ Reject

Classify ==
  /\ pc = "classify"
  /\ docType' = detectDocumentType(text)
  /\ pc' = IF docType' = "passport" THEN "parseMRZ" ELSE "extractName"
  /\ UNCHANGED <<file, imageToProcess, text, mrzData, extractedArabicName,
                 photoSource, profilePhoto, visaData>>
  /\ UNCHANGED photoVars
  /\ UNCHANGED <<pageVars, historyVars>>

ParseMRZ ==
  /\ pc = "parseMRZ"
  /\ mrzData' = parseMRZ(text)
  /\ pc' = "extractName"
  /\ UNCHANGED <<file, imageToProcess, text, docType, extractedArabicName,
                 photoSource, profilePhoto, visaData>>
  /\ UNCHANGED photoVars
  /\ UNCHANGED <<pageVars, historyVars>>

ExtractName ==
  /\ pc = "extractName"
  /\ extractedArabicName' = extractName(text)
  /\ photoSource' = PhotoSourceOf(file, imageToProcess)
  /\ pc' = "photo"
  /\ UNCHANGED <<file, imageToProcess, text, docType, mrzData, profilePhoto, visaData>>
  /\ UNCHANGED photoVars
  /\ UNCHANGED <<pageVars, historyVars>>

\* extractProfilePhoto resolves
LocatePhoto ==
  /\ pc = "photo"
  /\ profilePhoto' \in PhotoResults
  /\ pc' = "assemble"
  /\ UNCHANGED <<file, imageToProcess, text, docType, mrzData, extractedArabicName,
                 photoSource, visaData>>
  /\ UNCHANGED photoVars
  /\ UNCHANGED <<pageVars, historyVars>>

\* the call resolves to the record built, or its catch block runs
Settle(built) ==
  IF built = Thrown
  THEN pc' = "failed" /\ visaData' = GenericError
  ELSE pc' = "done" /\ visaData' = built

\* lines 265-295
Assemble ==
  /\ pc = "assemble"
  /\ Settle(BuildVisaData(text, docType, mrzData, extractedArabicName, profilePhoto))
  /\ UNCHANGED <<file, imageToProcess, text, docType, mrzData, extractedArabicName,
                 photoSource, profilePhoto>>
  /\ UNCHANGED photoVars
  /\ UNCHANGED <<pageVars, historyVars>>

(***************************************************************************)
(* The recognized texts the model draws from: what Tesseract may return.   *)
(***************************************************************************)
\* n fill characters
Fill(n) == [i \in 1..n |-> "<"]

\* "MRZ pattern - 2 lines, 44 characters each"
MRZLineLength == 44

\* the pieces joined by the separator sep
RECURSIVE Join(_, _)
Join(pieces, sep) ==
  IF pieces = <<>> THEN <<>>
  ELSE IF Len(pieces) = 1 THEN pieces[1]
  ELSE pieces[1] \o sep \o Join(Tail(pieces), sep)

\* P<MAR, the name field, fill up to 44 characters
MRZLine1(name) ==
  <<"P", "<", "M", "A", "R">> \o name \o Fill(MRZLineLength - 5 - Len(name))

\* a line 2 of 44 characters with the birth date field dob at [13,19)
MRZLine2(dob) ==
  <<"C", "D", "9", "8", "7", "6", "5", "4", "3", "2", "M", "A", "R">> \o dob
    \o <<"5", "F", "3", "0", "0", "1", "0", "1", "7">> \o Fill(14) \o <<"0", "2">>

\* DOE<<JOHN
NameDoeJohn ==
  <<"D", "O", "E", "<", "<", "J", "O", "H", "N">>

\* the line 2 of the specification's example (43 characters, no check digit at offset 9)
SyntheticLine2 ==
  <<"A", "B", "1", "2", "3", "4", "5", "6", "7", "M", "A", "R", "8", "5", "0", "1", "0",
    "1", "9", "M", "3", "0", "0", "1", "0", "1", "7", "0", "0", "0", "0", "0", "0", "0",
    "0", "0", "0", "0", "0", "0", "0", "0", "0">>

\* the example of the specification: P<MARDOE<<JOHN and 29 fill characters
SyntheticLine1 == <<"P", "<", "M", "A", "R">> \o NameDoeJohn \o Fill(29)

SyntheticMRZ == SyntheticLine1 \o <<"\n">> \o SyntheticLine2

\* born 15 July 2005
Dob050715 ==
  <<"0", "5", "0", "7", "1", "5">>

\* a name field in which every fill character was read as K
NameUnfilled ==
  <<"A", "L", "A", "M", "I", "K", "K", "K", "K", "K", "K", "K", "K", "K", "K", "K", "K",
    "K", "K", "K", "K", "K", "K", "K", "K", "K", "K", "K", "K", "K", "K", "K", "K", "K",
    "K", "K", "K", "K", "K", "K", "K", "K", "K">>

\* a name field in which O was read as 0
NameWithDigits ==
  <<"D", "0", "E", "<", "<", "J", "0", "H", "N">>

\* a line of the shape ^[A-Z]{9,}[A-Z]{3}[0-9]{7}, 44 characters
FallbackLine2 ==
  <<"A", "B", "C", "D", "E", "F", "G", "H", "I", "M", "A", "R", "8", "5", "0", "1", "0",
    "1", "9", "M", "3", "0", "0", "1", "0", "1", "7", "<", "<", "<", "<", "<", "<", "<",
    "<", "<", "<", "<", "<", "<", "<", "<", "<", "<">>

\* PASSPORT
PassportHeader ==
  <<"P", "A", "S", "S", "P", "O", "R", "T">>

\* Visa No: 1234567890
VisaNoLine ==
  <<"V", "i", "s", "a", " ", "N", "o", ":", " ", "1", "2", "3", "4", "5", "6", "7", "8",
    "9", "0">>

\* محمد الغزالي
ArabicNameLine ==
  <<"meem", "hah", "meem", "dal", " ", "alef", "lam", "ghain", "zain", "alef", "lam",
    "yeh">>

\* محمد، الغزالي
ArabicNameCommaLine ==
  <<"meem", "hah", "meem", "dal", "arabic_comma", " ", "alef", "lam", "ghain", "zain",
    "alef", "lam", "yeh">>

\* Name: John Smith
EnglishNameLine ==
  <<"N", "a", "m", "e", ":", " ", "J", "o", "h", "n", " ", "S", "m", "i", "t", "h">>

\* an Arabic-script name none of whose letters arabicToLatinMap maps (peh, tatweel)
UnmappedNameLine ==
  <<"peh", "peh", "peh", "peh", "peh", " ", "peh", "tatweel", "peh", "peh", "peh", "peh">>

\* Birth Date: 01/02/1990
BirthDateLine ==
  <<"B", "i", "r", "t", "h", " ", "D", "a", "t", "e", ":", " ", "0", "1", "/", "0", "2",
    "/", "1", "9", "9", "0">>

\* Passport No: AB1234567
PassportNoLine ==
  <<"P", "a", "s", "s", "p", "o", "r", "t", " ", "N", "o", ":", " ", "A", "B", "1", "2",
    "3", "4", "5", "6", "7">>

\* P<MAR
ShortMRZPrefix ==
  <<"P", "<", "M", "A", "R">>

\* the fragments a text is made of: lines, and MRZ blocks of two lines
Fragments ==
  << <<>>,
     PassportHeader,
     VisaNoLine,
     SyntheticMRZ,
     MRZLine1(NameUnfilled) \o <<"\n">> \o MRZLine2(Dob050715),
     MRZLine1(NameWithDigits) \o <<"\n">> \o MRZLine2(Dob050715),
     MRZLine1(NameDoeJohn),
     FallbackLine2,
     ArabicNameLine,
     ArabicNameCommaLine,
     EnglishNameLine,
     UnmappedNameLine,
     BirthDateLine,
     PassportNoLine,
     ShortMRZPrefix >>

\* the most fragments in a text
MaxFragments == 2

\* the sequences of at most n elements of 1..k
RECURSIVE Choices(_, _)
Choices(n, k) ==
  IF n = 0 THEN {<<>>}
  ELSE LET shorter == Choices(n - 1, k)
       IN  shorter \cup {<<i>> \o c : i \in 1..k, c \in {x \in shorter : Len(x) = n - 1}}

FragmentTexts ==
  {Join([i \in 1..Len(c) |-> Fragments[c[i]]], <<"\n">>) :
     c \in Choices(MaxFragments, Len(Fragments))}

TwoDigits(n) == <<DigitSeq[(n \div 10) + 1], DigitSeq[(n % 10) + 1]>>

\* the birth date fields: every two-digit year, and characters that are not
\* digits where the recognizer misreads the line
BirthDateFields ==
  {TwoDigits(y) \o <<"0", "7", "1", "5">> : y \in 0..99}
    \cup {Fill(6),
          <<"8", "O", "0", "7", "1", "5">>,
          <<"-", "5", "0", "7", "1", "5">>,
          <<"+", "9", "0", "7", "1", "5">>,
          <<"0", "x", "0", "7", "1", "5">>,
          <<"8", "5", "O", "7", "I", "5">>}

\* a line 2 cut after its first n characters
ShortLine2(n) == SubSeq(MRZLine2(<<"8", "5", "0", "7", "1", "5">>), 1, n)

MRZTexts ==
  {MRZLine1(NameDoeJohn) \o <<"\n">> \o MRZLine2(dob) : dob \in BirthDateFields}
    \cup {MRZLine1(NameDoeJohn) \o <<"\n">> \o ShortLine2(n) : n \in {9, 17, 19, 21}}

\* Name: and a word
NameLabelled(word) == <<"N", "a", "m", "e", ":", " ">> \o word

\* texts whose name, once cleaned, is one of the words of line 416
GarbageNameTexts ==
  {NameLabelled(<<"O", "f">>),
   NameLabelled(<<"b", "y">>),
   NameLabelled(<<"T", "H", "E">>),
   NameLabelled(<<"I", "n">>) \o <<"\n">> \o BirthDateLine,
   ArabicNameLine \o <<"\n">> \o NameLabelled(<<"O", "f">>)}

\* الاسم: محمد
ArabicLabelledName ==
  <<"alef", "lam", "alef", "seen", "meem", ":", " ", "meem", "hah", "meem", "dal">>

\* texts with a labelled name of one word, alone and before another line
LabelledNameTexts ==
  {ArabicLabelledName,
   ArabicLabelledName \o <<"\n">> \o VisaNoLine,
   ArabicLabelledName \o <<"\n">> \o PassportHeader}

\* EL<FASSI<<JO<ANN: names of two words each
NameOfTwoWords ==
  <<"E", "L", "<", "F", "A", "S", "S", "I", "<", "<", "J", "O", "<", "A", "N", "N">>

\* a passport whose MRZ names hold a space, alone and under the bio page name
SpacedNameTexts ==
  {MRZLine1(NameOfTwoWords) \o <<"\n">> \o MRZLine2(Dob050715),
   ArabicNameLine \o <<"\n">> \o MRZLine1(NameOfTwoWords) \o <<"\n">> \o MRZLine2(Dob050715)}

\* a passport whose MRZ holds a last name and no first name, under a name of
\* the bio page: of two words, of one labelled word, or none
NoFirstNameTexts ==
  {MRZLine1(<<"D", "O", "E">>) \o <<"\n">> \o MRZLine2(Dob050715),
   ArabicNameLine \o <<"\n">> \o MRZLine1(<<"D", "O", "E">>) \o <<"\n">>
     \o MRZLine2(Dob050715),
   ArabicLabelledName \o <<"\n">> \o MRZLine1(<<"D", "O", "E">>) \o <<"\n">>
     \o MRZLine2(Dob050715)}

\* علي عمر: 7 characters
ShortArabicName ==
  <<"ain", "lam", "yeh", " ", "ain", "meem", "reh">>

\* محمد يوسفي: 10 characters
ArabicNameOfTen ==
  <<"meem", "hah", "meem", "dal", " ", "yeh", "waw", "seen", "feh", "yeh">>

\* محمدي يوسفي: 11 characters
ArabicNameOfEleven ==
  <<"meem", "hah", "meem", "dal", "yeh", " ", "yeh", "waw", "seen", "feh", "yeh">>

\* texts that are one line holding a name without a label, of 10 characters
\* at most and of more
UnlabelledNameTexts ==
  {ShortArabicName, ArabicNameOfTen, ArabicNameOfEleven,
   ShortArabicName \o <<"\n">> \o <<"O", "K">>,
   ShortArabicName \o <<"\n">> \o PassportHeader}

\* الاسم: John Smith
LatinNameUnderArabicLabel ==
  <<"alef", "lam", "alef", "seen", "meem", ":", " ", "J", "o", "h", "n", " ", "S", "m",
    "i", "t", "h">>

\* texts whose Arabic label is followed by a name in Latin letters
LatinUnderLabelTexts ==
  {LatinNameUnderArabicLabel,
   VisaNoLine \o <<"\n">> \o LatinNameUnderArabicLabel,
   LatinNameUnderArabicLabel \o <<"\n">> \o ArabicNameLine}

\* the line above the MRZ of DOE<<JOHN
BioPageOver(line) ==
  line \o <<"\n">> \o MRZLine1(NameDoeJohn) \o <<"\n">> \o MRZLine2(Dob050715)

\* passports whose bio page line is Arabic for 7 characters of 10 (محمد علي abc),
\* for 8 of 11 (محمدي علي abc), for 6 of 9 (محمد يو abc), and wholly but of 4
\* characters once cleaned (عل م Date)
MixedBioPageTexts ==
  {BioPageOver(<<"meem", "hah", "meem", "dal", " ", "ain", "lam", "yeh", " ", "a", "b", "c">>),
   BioPageOver(<<"meem", "hah", "meem", "dal", "yeh", " ", "ain", "lam", "yeh", " ",
                 "a", "b", "c">>),
   BioPageOver(<<"meem", "hah", "meem", "dal", " ", "yeh", "waw", " ", "a", "b", "c">>),
   BioPageOver(<<"ain", "lam", " ", "meem", " ", "D", "a", "t", "e">>)}

\* Sexton Blake
NameSextonBlake ==
  <<"S", "e", "x", "t", "o", "n", " ", "B", "l", "a", "k", "e">>

\* Hajji Ahmed
NameHajjiAhmed ==
  <<"H", "a", "j", "j", "i", " ", "A", "h", "m", "e", "d">>

\* texts with pairs of capitalized words: names that begin like a field label,
\* labels before a name, and a label alone
CapitalizedPairTexts ==
  {NameSextonBlake,
   <<"V", "i", "s", "a", " ", "T", "y", "p", "e">> \o <<"\n">> \o NameHajjiAhmed,
   <<"P", "a", "s", "s", "p", "o", "r", "t", " ", "N", "u", "m", "b", "e", "r", " ",
     "J", "o", "h", "n", " ", "S", "m", "i", "t", "h">>,
   <<"N", "a", "m", "e", " ", "J", "o", "h", "n", " ", "S", "m", "i", "t", "h">>,
   <<"B", "i", "r", "t", "h", " ", "P", "l", "a", "c", "e">>}

\* 9876543210 AB7654321 31/12/1999: a bare value of each of the three shapes
BareValuesLine ==
  <<"9", "8", "7", "6", "5", "4", "3", "2", "1", "0", " ", "A", "B", "7", "6", "5", "4",
    "3", "2", "1", " ", "3", "1", "/", "1", "2", "/", "1", "9", "9", "9">>

\* رقم التأشيرة: 5555555555
ArabicVisaNoLine ==
  <<"reh", "qaf", "meem", " ", "alef", "lam", "teh", "alef_hamza_above", "sheen", "yeh",
    "reh", "teh_marbuta", ":", " ", "5", "5", "5", "5", "5", "5", "5", "5", "5", "5">>

\* رقم جواز السفر: XY7777777
ArabicPassportNoLine ==
  <<"reh", "qaf", "meem", " ", "jeem", "waw", "alef", "zain", " ", "alef", "lam", "seen",
    "feh", "reh", ":", " ", "X", "Y", "7", "7", "7", "7", "7", "7", "7">>

\* تاريخ الميلاد: 05/06/1977
ArabicBirthDateLine ==
  <<"teh", "alef", "reh", "yeh", "khah", " ", "alef", "lam", "meem", "yeh", "lam", "alef",
    "dal", ":", " ", "0", "5", "/", "0", "6", "/", "1", "9", "7", "7">>

\* texts in which bare values stand before labelled ones, in English, in
\* Arabic and in both, the Arabic label before the English one
LabelledAfterBareTexts ==
  {BareValuesLine,
   BareValuesLine \o <<"\n">> \o VisaNoLine \o <<"\n">> \o PassportNoLine
     \o <<"\n">> \o BirthDateLine,
   BareValuesLine \o <<"\n">> \o ArabicVisaNoLine \o <<"\n">> \o ArabicPassportNoLine
     \o <<"\n">> \o ArabicBirthDateLine,
   ArabicVisaNoLine \o <<"\n">> \o ArabicPassportNoLine \o <<"\n">> \o ArabicBirthDateLine
     \o <<"\n">> \o VisaNoLine \o <<"\n">> \o PassportNoLine \o <<"\n">> \o BirthDateLine}

\* the line with a space put after its first n characters
SpaceAfter(line, n) == SubSeq(line, 1, n) \o <<" ">> \o SubSeq(line, n + 1, Len(line))

\* texts for the scan of parseMRZ: a line 1 over an empty line and a whole
\* MRZ; both lines read with a space in them; a short line 1 with a space in
\* its name over a line of the fallback shape; a line of the fallback shape
\* under a blank line and over a whole MRZ
MRZScanTexts ==
  {MRZLine1(NameDoeJohn) \o <<"\n", "\n">> \o SyntheticMRZ,
   SpaceAfter(MRZLine1(NameDoeJohn), 7) \o <<"\n">> \o SpaceAfter(MRZLine2(Dob050715), 10),
   SpaceAfter(ShortMRZPrefix \o NameDoeJohn, 7) \o <<"\n">> \o FallbackLine2,
   <<" ", "\n">> \o FallbackLine2 \o <<"\n">> \o SyntheticMRZ}

Texts ==
  FragmentTexts \cup MRZTexts \cup GarbageNameTexts \cup LabelledNameTexts
    \cup SpacedNameTexts \cup NoFirstNameTexts \cup UnlabelledNameTexts
    \cup LatinUnderLabelTexts \cup MixedBioPageTexts \cup CapitalizedPairTexts
    \cup LabelledAfterBareTexts \cup MRZScanTexts

Next ==
  \/ Begin
  \/ Rasterize
  \/ RasterizeFails
  \/ Recognize(Texts)
  \/ RecognizeFails
  \/ Classify
  \/ ParseMRZ
  \/ ExtractName
  \/ LocatePhoto
  \/ Assemble

Spec == Init /\ [][Next]_vars

(***************************************************************************)
(* The two email rules applied to one name of two tokens: generateEmail    *)
(* and the fallback of generateEmailFromPassport (no MRZ names).           *)
(***************************************************************************)
\* the most letters in a token
MaxTokenLength == 4

\* the tokens: words of alef (a) and beh (b)
RECURSIVE NameTokens(_)
NameTokens(n) ==
  IF n = 0 THEN {}
  ELSE {<<c>> : c \in {"alef", "beh"}}
         \cup NameTokens(n - 1)
         \cup {Append(t, c) : t \in NameTokens(n - 1), c \in {"alef", "beh"}}

\* the names of two tokens
TwoTokenNames ==
  {a \o <<" ">> \o b : a \in NameTokens(MaxTokenLength), b \in NameTokens(MaxTokenLength)}

PrefixInit ==
  /\ pc = "name"
  /\ file = [type |-> "image/jpeg", convertedImage |-> FALSE]
  /\ imageToProcess = "file"
  /\ text = <<>>
  /\ docType = "none"
  /\ mrzData = Null
  /\ extractedArabicName \in TwoTokenNames
  /\ photoSource = "none"
  /\ profilePhoto = <<>>
  /\ visaData = None
  /\ PhotoIdle
  /\ AppIdle

\* both functions are called with the name
GenerateBoth ==
  /\ pc = "name"
  /\ visaData' = [visa     |-> generateEmail(text, extractedArabicName),
                  passport |-> generateEmailFromPassport(mrzData, extractedArabicName)]
  /\ pc' = "generated"
  /\ UNCHANGED <<file, imageToProcess, text, docType, mrzData, extractedArabicName,
                 photoSource, profilePhoto>>
  /\ UNCHANGED photoVars
  /\ UNCHANGED <<pageVars, historyVars>>

PrefixNext == GenerateBoth

PrefixSpec == PrefixInit /\ [][PrefixNext]_vars


(***************************************************************************)
(* Properties of the extraction pipeline.                                  *)
(***************************************************************************)
\* the call has returned a record
Returned == pc = "done"

\* the statements after parseMRZ has run on a passport
AfterParseMRZ == pc \in {"extractName", "photo", "assemble", "done"} /\ docType = "passport"

\* DD/MM/YYYY: two digits, a slash, two digits, a slash, four digits
IsDDMMYYYY(s) ==
  /\ Len(s) = 10
  /\ \A i \in {1, 2, 4, 5, 7, 8, 9, 10} : s[i] \in DigitSet
  /\ s[3] = "/"
  /\ s[6] = "/"

\* <prefix>@comfythings.com, the prefix one or more lowercase ASCII letters
IsComfyEmail(s) ==
  /\ Len(s) > Len(EmailDomain)
  /\ SubSeq(s, Len(s) - Len(EmailDomain) + 1, Len(s)) = EmailDomain
  /\ \A i \in 1..(Len(s) - Len(EmailDomain)) : s[i] \in LowerSet

\* a string value: a sequence of characters, and not the value undefined
IsString(v) == v # Undefined /\ v \in Seq(STRING)

\* the six fields of VisaData, each a string
IsFullyShaped(r) ==
  /\ DOMAIN r = {"fullName", "email", "passportNumber", "visaNumber", "birthDate",
                 "clientPhoto"}
  /\ \A f \in DOMAIN r : IsString(r[f])

\* C1 (as stated): a record whose text is classified as passport has an empty
\* visaNumber, whether or not parseMRZ decoded an MRZ.  The code takes the visa
\* branch when parseMRZ returns null, and that branch runs extractVisaNumber.
C1_PassportHasNoVisaNumber ==
  (Returned /\ docType = "passport") => visaData.visaNumber = <<>>

\* C2 (as stated): the birthDate of every returned record is empty or has the
\* shape DD/MM/YYYY.  convertDate writes the year as parseInt leaves it, so a
\* year 00..09 has one digit and a field that is not a number gives NaN.
C2_BirthDateIsDDMMYYYY ==
  Returned => (visaData.birthDate = <<>> \/ IsDDMMYYYY(visaData.birthDate))

\* C3 (as stated): the email of every returned record is empty or is a
\* non-empty prefix of lowercase ASCII letters followed by @comfythings.com.
\* The MRZ names are lowercased but not filtered, and a name none of whose
\* characters is mapped transliterates to the empty prefix.
C3_EmailIsComfyAddress ==
  Returned => (visaData.email = <<>> \/ IsComfyEmail(visaData.email))

\* C4: whatever the recognized text, the statements from the classification to
\* the assembly of the record do not throw (the call fails only before a text
\* is classified), and the record returned has its six fields, each a string.
C4_ExtractionNeverThrows ==
  /\ pc = "failed" => docType = "none"
  /\ Returned => IsFullyShaped(visaData)

\* C4 witness: the call has returned a record for the empty text
C4_Witness == Returned /\ text = <<>> /\ IsFullyShaped(visaData)

\* C5: detectDocumentType is a function of the text alone: passport if the text
\* has the MRZ shape, otherwise passport if it has a passport keyword, otherwise
\* visa, with or without a visa keyword; a second call gives the same value.
C5_ClassificationOrder ==
  docType # "none" =>
    /\ HasMRZ(text) => docType = "passport"
    /\ (~HasMRZ(text) /\ HasPassportKeywords(text)) => docType = "passport"
    /\ (~HasMRZ(text) /\ ~HasPassportKeywords(text)) => docType = "visa"
    /\ docType = detectDocumentType(text)

\* C5 witness: a text with a visa keyword and a passport keyword and no MRZ is
\* classified as passport
C5_Witness ==
  /\ docType = "passport"
  /\ HasVisaKeywords(text)
  /\ HasPassportKeywords(text)
  /\ ~HasMRZ(text)

\* AB1234567
NumberAB1234567 == <<"A", "B", "1", "2", "3", "4", "5", "6", "7">>

\* the decoded names, number and birth date of the synthetic block, the birth
\* date being dob
DecodesSynthetic(m, dob) ==
  /\ m # Null
  /\ m.lastName = <<"D", "O", "E">>
  /\ m.firstName = <<"J", "O", "H", "N">>
  /\ m.passportNumber = NumberAB1234567
  /\ m.dateOfBirth = dob

\* C6 (amended): decoding the synthetic block gives lastName DOE, firstName
\* JOHN, passportNumber AB1234567, and the birth date 19/10/2050: its line 2
\* has no check digit after the number, so offsets [13,19) hold 501019.
C6_SyntheticDecode ==
  (AfterParseMRZ /\ text = SyntheticMRZ) =>
    DecodesSynthetic(mrzData, <<"1", "9", "/", "1", "0", "/", "2", "0", "5", "0">>)

\* C6 (as stated): the birth date decoded from the synthetic block is 01/01/1985
C6_SyntheticDecodeAsStated ==
  (AfterParseMRZ /\ text = SyntheticMRZ) =>
    DecodesSynthetic(mrzData, <<"0", "1", "/", "0", "1", "/", "1", "9", "8", "5">>)

\* C6 witness: parseMRZ has decoded the synthetic block
C6_Witness == AfterParseMRZ /\ text = SyntheticMRZ /\ mrzData # Null

\* characters [13,19) of the MRZ line 2 of the text
RawBirthDate == Substring(MRZLines(text).mrzLine2, 13, 19)

\* a six-character field whose year is yy converts to DD/MM/ and the year
ConvertsTo(raw, out, yy, year) ==
  (Len(raw) = 6 /\ SubSeq(raw, 1, 2) = yy) =>
    out = SubSeq(raw, 5, 6) \o <<"/">> \o SubSeq(raw, 3, 4) \o <<"/">> \o year

\* the conversions of the years 49, 50 and 51, fifty being the year of 50
ConvertsBoundaryYears(raw, out, fifty) ==
  /\ ConvertsTo(raw, out, <<"4", "9">>, <<"2", "0", "4", "9">>)
  /\ ConvertsTo(raw, out, <<"5", "0">>, fifty)
  /\ ConvertsTo(raw, out, <<"5", "1">>, <<"1", "9", "5", "1">>)

\* C7 (amended): convertDate maps the year 50 to 2050 (the test is yy > 50), 49
\* to 2049 and 51 to 1951, and writes DD/MM/YYYY with the day from characters
\* [4,6) and the month from [2,4).
C7_CenturyBoundary ==
  (AfterParseMRZ /\ mrzData # Null) =>
    ConvertsBoundaryYears(RawBirthDate, mrzData.dateOfBirth, <<"2", "0", "5", "0">>)

\* C7 (as stated): the year 50 maps to 1950
C7_CenturyBoundaryAsStated ==
  (AfterParseMRZ /\ mrzData # Null) =>
    ConvertsBoundaryYears(RawBirthDate, mrzData.dateOfBirth, <<"1", "9", "5", "0">>)

\* C7 witness: a birth date field of the year 50 has been converted
C7_Witness ==
  /\ AfterParseMRZ
  /\ mrzData # Null
  /\ RawBirthDate = <<"5", "0", "0", "7", "1", "5">>
  /\ mrzData.dateOfBirth = <<"1", "5", "/", "0", "7", "/", "2", "0", "5", "0">>

\* characters [a,b) of s, as many of them as s has
Slice(s, a, b) == [k \in 1..Max(0, Min(b, Len(s)) - a) |-> s[a + k]]

\* the first position from which "<<" stands in s at or after from, 0 if none
BreakFrom(s, from) ==
  MinOrZero({i \in from..(Len(s) - 1) : s[i] = "<" /\ s[i + 1] = "<"})

\* segment 0 of s split on "<<", b being the first break
Segment0(s, b) == IF b = 0 THEN s ELSE SubSeq(s, 1, b - 1)

\* segment 1 of s split on "<<", b being the first break and c the second;
\* the empty string if s has no break
Segment1(s, b, c) ==
  IF b = 0 THEN <<>>
  ELSE IF c = 0 THEN SubSeq(s, b + 2, Len(s))
  ELSE SubSeq(s, b + 2, c - 1)

\* a segment with "<" replaced by a space, trimmed
CleanSegment(seg) == Trim([i \in 1..Len(seg) |-> IF seg[i] = "<" THEN " " ELSE seg[i]])

\* the second break of s, b being the first
SecondBreak(s, b) == IF b = 0 THEN 0 ELSE BreakFrom(s, b + 2)

\* the reference decode of the name field s and line 2
ReferenceOf(s, b, line2) ==
  [passportNumber |-> Trim(SelectSeq(Slice(line2, 0, 9), NotFill)),
   nationality    |-> Slice(line2, 10, 13),
   dateOfBirth    |-> convertDate(Slice(line2, 13, 19)),
   sex            |-> Slice(line2, 20, 21),
   expiryDate     |-> convertDate(Slice(line2, 21, 27)),
   lastName       |-> CleanSegment(Segment0(s, b)),
   firstName      |-> CleanSegment(Segment1(s, b, SecondBreak(s, b)))]

\* the reference decode of line 1 without its first five characters, and line 2
ReferenceOfName(s, line2) == ReferenceOf(s, BreakFrom(s, 1), line2)

ReferenceDecode(line1, line2) == ReferenceOfName(Slice(line1, 5, Len(line1)), line2)

\* both lines were found and m is their reference decode
DecodesAsReference(l, m) ==
  (l.mrzLine1 # <<>> /\ l.mrzLine2 # <<>>) => m = ReferenceDecode(l.mrzLine1, l.mrzLine2)

\* C8: whenever parseMRZ finds both lines, its result is the fixed-offset
\* decode: the names are segments 0 and 1 of line 1 after its first five
\* characters, split on "<<", fill replaced by spaces and trimmed; the number
\* is line2[0,9) without fill; nationality [10,13); birth date the conversion
\* of [13,19); sex [20,21); expiry the conversion of [21,27).  No check digit is
\* validated and line 2 may have any length.
C8_FixedOffsetDecode == AfterParseMRZ => DecodesAsReference(MRZLines(text), mrzData)

\* C8 witness: a line 2 shorter than 40 characters has been decoded
C8_Witness ==
  /\ AfterParseMRZ
  /\ mrzData # Null
  /\ Len(MRZLines(text).mrzLine2) < MinMRZLineLength
  /\ mrzData.passportNumber # <<>>

\* C9: when the text is classified as passport and parseMRZ returns null, the
\* call does not fail, and the passportNumber and birthDate of the record are
\* what the pattern extractors find in the text.
C9_FallsBackToPatterns ==
  (pc \in {"done", "failed"} /\ docType = "passport" /\ mrzData = Null) =>
    /\ Returned
    /\ visaData.passportNumber = extractPassportNumber(text)
    /\ visaData.birthDate = extractBirthDate(text)

\* C9 witness: a passport without MRZ whose number and birth date were found
\* by the patterns
C9_Witness ==
  /\ Returned
  /\ docType = "passport"
  /\ mrzData = Null
  /\ visaData.passportNumber # <<>>
  /\ visaData.birthDate # <<>>

\* the first of a, b, c that is not empty (c if both a and b are)
FirstNonEmpty(a, b, c) == IF a # <<>> THEN a ELSE IF b # <<>> THEN b ELSE c

\* C10: the fullName of a passport record (MRZ decoded) is the name of the bio
\* page if extractArabicNameFromPassport finds one, otherwise the result of
\* extractName if it is not empty, otherwise firstName, a space, lastName.
C10_NamePriority ==
  (Returned /\ docType = "passport" /\ mrzData # Null) =>
    visaData.fullName =
      FirstNonEmpty(extractArabicNameFromPassport(text), extractedArabicName,
                    mrzData.firstName \o <<" ">> \o mrzData.lastName)

\* C10 witness: the bio page name and the extracted name are both found and
\* differ, and the record has the bio page name
C10_Witness ==
  /\ Returned
  /\ docType = "passport"
  /\ mrzData # Null
  /\ extractedArabicName # <<>>
  /\ extractArabicNameFromPassport(text) \notin {<<>>, extractedArabicName}
  /\ visaData.fullName = extractArabicNameFromPassport(text)

\* extractName has run
AfterExtractName == pc \in {"photo", "assemble", "done"}

\* al, he, the, of, in, by
GarbageNames ==
  {<<"a", "l">>, <<"h", "e">>, <<"t", "h", "e">>, <<"o", "f">>, <<"i", "n">>, <<"b", "y">>}

\* C11: whatever the text, the name extractName returns is not, in any case of
\* its letters, one of the words Al, He, The, Of, In, By.
C11_NeverAGarbageName ==
  AfterExtractName => ToLowerCase(extractedArabicName) \notin GarbageNames

\* C11 witness: the raw name of Strategy 1 is one of the words once cleaned,
\* and extractName has returned the empty string
C11_Witness ==
  /\ AfterExtractName
  /\ ToLowerCase(DropGarbageWords(DropLatinNoise(Normalise(RawName(text))))) \in GarbageNames
  /\ extractedArabicName = <<>>

\* the positions at which a whitespace-separated token of s starts
TokenStarts(s) == {i \in 1..Len(s) : ~IsSpace(s[i]) /\ (i = 1 \/ IsSpace(s[i - 1]))}

\* the token of s that starts at i
TokenAt(s, i) ==
  SubSeq(s, i, MaxOrZero({j \in i..Len(s) : \A k \in i..j : ~IsSpace(s[k])}))

\* the first token of s
FirstToken(s) == TokenAt(s, MinOrZero(TokenStarts(s)))

\* the second token of s
SecondToken(s) == TokenAt(s, MinOrZero(TokenStarts(s) \ {MinOrZero(TokenStarts(s))}))

\* the last token of s
LastToken(s) == TokenAt(s, MaxOrZero(TokenStarts(s)))

\* the first three characters of s, fewer if s is shorter
First3(s) == SubSeq(s, 1, Min(3, Len(s)))

\* the email of the visa rule for the transliterated name latin: two or more
\* tokens give the first and three characters of the second; otherwise the one
\* token (empty when latin holds no token, as split gives one empty part)
VisaRuleEmail(latin) ==
  IF Cardinality(TokenStarts(latin)) >= 2
  THEN ToLowerCase(FirstToken(latin)) \o First3(ToLowerCase(SecondToken(latin))) \o EmailDomain
  ELSE IF Cardinality(TokenStarts(latin)) = 1
  THEN ToLowerCase(FirstToken(latin)) \o EmailDomain
  ELSE EmailDomain

\* the record was built by the visa branch from a name with an Arabic character
VisaBranchWithArabicName ==
  /\ Returned
  /\ docType = "visa" \/ mrzData = Null
  /\ extractedArabicName # <<>>
  /\ HasArabic(extractedArabicName)

\* C12: on the visa branch, the email of a name that holds an Arabic character
\* is built from the tokens of its transliteration: the first token and three
\* characters of the second, lowercased, or the only token lowercased, followed
\* by @comfythings.com.  generateEmail reads nothing but its two arguments.
C12_VisaEmailRule ==
  VisaBranchWithArabicName =>
    visaData.email = VisaRuleEmail(transliterateArabic(extractedArabicName))

\* C12 witness: a name of two tokens and a name of one token have each given
\* their email (the first is seen with two tokens, the second with one)
C12_Witness ==
  /\ VisaBranchWithArabicName
  /\ Cardinality(TokenStarts(transliterateArabic(extractedArabicName))) >= 2
  /\ visaData.email =
       <<"m", "h", "m", "d", "a", "l", "g">> \o EmailDomain

\* a name of exactly one token has given its email
C12_WitnessOneToken ==
  /\ VisaBranchWithArabicName
  /\ Cardinality(TokenStarts(transliterateArabic(extractedArabicName))) = 1
  /\ visaData.email = <<"m", "h", "m", "d">> \o EmailDomain

\* s without its whitespace characters
WithoutWhitespace(s) ==
  LET F[i \in 0..Len(s)] ==
        IF i = 0 THEN <<>>
        ELSE IF s[i] \in SpaceSet THEN F[i - 1]
        ELSE Append(F[i - 1], s[i])
  IN  F[Len(s)]

\* the record was built by the passport branch from an MRZ with both names
PassportBranchWithBothNames ==
  /\ Returned
  /\ docType = "passport"
  /\ mrzData # Null
  /\ mrzData.lastName # <<>>
  /\ mrzData.firstName # <<>>

\* C13: on the passport branch, when the MRZ gives a last name and a first
\* name, the email is the last name, lowercased and without whitespace, then
\* the first three characters of the first name, lowercased and without
\* whitespace, then @comfythings.com, whatever the full name of the record.
C13_PassportEmailFromMRZ ==
  PassportBranchWithBothNames =>
    visaData.email =
      WithoutWhitespace(ToLowerCase(mrzData.lastName))
        \o First3(WithoutWhitespace(ToLowerCase(mrzData.firstName)))
        \o EmailDomain

\* C13 witness: the full name is the Arabic name of the bio page, the MRZ
\* names are EL FASSI and JO ANN, and the email is elfassijoa@comfythings.com
C13_Witness ==
  /\ PassportBranchWithBothNames
  /\ HasArabic(visaData.fullName)
  /\ mrzData.lastName = <<"E", "L", " ", "F", "A", "S", "S", "I">>
  /\ mrzData.firstName = <<"J", "O", " ", "A", "N", "N">>
  /\ visaData.email =
       <<"e", "l", "f", "a", "s", "s", "i", "j", "o", "a">> \o EmailDomain

\* the record was built by the passport branch from an MRZ that lacks a name
PassportBranchLackingAName ==
  /\ Returned
  /\ docType = "passport"
  /\ mrzData # Null
  /\ mrzData.lastName = <<>> \/ mrzData.firstName = <<>>

\* the email of the reversed rule for the transliterated name latin: its last
\* token and three characters of its first
ReversedRuleEmail(latin) ==
  ToLowerCase(LastToken(latin)) \o First3(ToLowerCase(FirstToken(latin))) \o EmailDomain

\* C14 (as stated): on the passport branch, when the MRZ lacks a name and the
\* full name holds an Arabic character, the email is the last token of the
\* transliterated name and three characters of its first token, for a name of
\* one token as for a name of several; otherwise the email is empty.  The
\* fallback of generateEmailFromPassport has no arm for a name of one token.
C14_ReversedRuleForEveryCount ==
  PassportBranchLackingAName =>
    visaData.email =
      IF /\ HasArabic(visaData.fullName)
         /\ TokenStarts(transliterateArabic(visaData.fullName)) # {}
      THEN ReversedRuleEmail(transliterateArabic(visaData.fullName))
      ELSE <<>>

\* the same for the names of two tokens or more only, the email of any other
\* name being empty: what the fallback does
C14_ReversedRuleFromTwoTokens ==
  PassportBranchLackingAName =>
    visaData.email =
      IF /\ HasArabic(visaData.fullName)
         /\ Cardinality(TokenStarts(transliterateArabic(visaData.fullName))) >= 2
      THEN ReversedRuleEmail(transliterateArabic(visaData.fullName))
      ELSE <<>>

\* both emails of the name have been generated
Generated == pc = "generated"

\* the tokens A and B of the name, transliterated
TokenA == FirstToken(transliterateArabic(extractedArabicName))

TokenB == LastToken(transliterateArabic(extractedArabicName))

\* s is one letter repeated, at most three times
IsShortRunOf(s, c) == Len(s) <= 3 /\ \A i \in 1..Len(s) : s[i] = c

\* A and B are runs of one same letter, of at most three letters each
AreShortRunsOfOneLetter(a, b) == \E c \in LowerSet : IsShortRunOf(a, c) /\ IsShortRunOf(b, c)

\* the emails are those of the two rules: A and three characters of B, B and
\* three characters of A
FollowsBothRules ==
  /\ visaData.visa = TokenA \o First3(TokenB) \o EmailDomain
  /\ visaData.passport = TokenB \o First3(TokenA) \o EmailDomain

\* C15 (amended): for two tokens A and B whose first three letters differ, the
\* visa prefix A + first3(B) differs from the passport prefix B + first3(A),
\* unless A and B are runs of one same letter of at most three letters each.
C15_PrefixOrdersDiffer ==
  Generated =>
    /\ FollowsBothRules
    /\ (First3(TokenA) # First3(TokenB) /\ ~AreShortRunsOfOneLetter(TokenA, TokenB))
         => visaData.visa # visaData.passport

\* C15 (as stated): the two prefixes differ whenever the first three letters
\* of A and B differ
C15_PrefixOrdersDifferAsStated ==
  Generated =>
    (First3(TokenA) # First3(TokenB) => visaData.visa # visaData.passport)

\* C15 witness: A = ab and B = abab differ in their first three letters, and
\* the prefixes ababa and ababab differ
C15_Witness ==
  /\ Generated
  /\ TokenA = <<"a", "b">>
  /\ TokenB = <<"a", "b", "a", "b">>
  /\ visaData.visa = <<"a", "b", "a", "b", "a">> \o EmailDomain
  /\ visaData.passport = <<"a", "b", "a", "b", "a", "b">> \o EmailDomain

-----------------------------------------------------------------------------
(* The photo locator: extractProfilePhoto (ocrProcessor.ts), detectAndCropFace
   and loadFaceApiModels (the face detection utility).  A call runs between
   its awaits without interleaving; each action below is one such stretch.
   document.createElement('canvas').getContext('2d') yields a context for a
   newly created canvas, so the branches on a missing context are not taken. *)

\* const maxDimension = 1200
maxDimension == 1200

\* Math.round(n / d) for n >= 0, d > 0
Round(n, d) == (2 * n + d) \div (2 * d)

\* Mutation of FallbackSize: the width is always the one set to the limit.
FallbackSizeByWidth(img) ==
  IF img.width > maxDimension \/ img.height > maxDimension
  THEN [width |-> maxDimension, height |-> Round(img.height * maxDimension, img.width)]
  ELSE [width |-> img.width, height |-> img.height]

\* the size of the fallback canvas: let width = img.width ... the if on maxDimension
FallbackSize(img) ==
  IF img.width > maxDimension \/ img.height > maxDimension
  THEN IF img.width > img.height
       THEN [width |-> maxDimension, height |-> Round(img.height * maxDimension, img.width)]
       ELSE [width |-> Round(img.width * maxDimension, img.height), height |-> maxDimension]
  ELSE [width |-> img.width, height |-> img.height]

\* the fallback of extractProfilePhoto: the full image drawn on a canvas of
\* the fallback size and encoded as JPEG
FullImageAt(img) ==
  [kind |-> "full", width |-> FallbackSize(img).width, height |-> FallbackSize(img).height]

\* paddingFactor = 0.5: the box grown by a quarter of its side on every side.
\* The sides of the boxes drawn are multiples of four, so the division is exact.
PaddedBox(box) ==
  [x |-> box.x - box.width \div 4, y |-> box.y - box.height \div 4,
   width |-> box.width + box.width \div 2, height |-> box.height + box.height \div 2]

\* x = Math.max(0, x); y = Math.max(0, y);
\* width = Math.min(img.width - x, width); height = Math.min(img.height - y, height)
ClampedBox(padded, img) ==
  LET x == Max(0, padded.x)
      y == Max(0, padded.y)
  IN  [x |-> x, y |-> y,
       width |-> Min(img.width - x, padded.width),
       height |-> Min(img.height - y, padded.height)]

\* the data URL detectAndCropFace returns for a detection
CroppedFaceAt(box, img) ==
  [kind |-> "face", rect |-> ClampedBox(PaddedBox(box), img)]

\* a call of extractProfilePhoto that has been made and awaits img.onload
NewCall(img) ==
  [pc |-> "loading", img |-> img, detection |-> "pending", box |-> None, result |-> None]

\* img.onload: the full image is drawn and detectAndCropFace is entered, which
\* awaits loadFaceApiModels when isModelLoaded is false, and otherwise goes on
\* to await the image of the canvas
ImageLoads(c) ==
  /\ photoCalls[c].pc = "loading"
  /\ IF isModelLoaded
     THEN /\ photoCalls' = [photoCalls EXCEPT ![c].pc = "awaitCanvasImage"]
          /\ UNCHANGED modelLoads
     ELSE /\ photoCalls' = [photoCalls EXCEPT ![c].pc = "awaitLoad"]
          /\ modelLoads' = [modelLoads EXCEPT !.started = @ + 1]
  /\ UNCHANGED isModelLoaded
  /\ UNCHANGED pipelineVars
  /\ UNCHANGED <<pageVars, historyVars>>

\* img.onerror = () => resolve('')
ImageFails(c) ==
  /\ photoCalls[c].pc = "loading"
  /\ photoCalls' = [photoCalls EXCEPT ![c].pc = "resolved",
                                      ![c].detection = "imageFailed",
                                      ![c].result = <<>>]
  /\ UNCHANGED <<isModelLoaded, modelLoads>>
  /\ UNCHANGED pipelineVars
  /\ UNCHANGED <<pageVars, historyVars>>

\* loadFromUri resolves: isModelLoaded = true, and detectAndCropFace goes on
ModelLoads(c) ==
  /\ photoCalls[c].pc = "awaitLoad"
  /\ isModelLoaded' = TRUE
  /\ modelLoads' = [modelLoads EXCEPT !.succeeded = TRUE]
  /\ photoCalls' = [photoCalls EXCEPT ![c].pc = "awaitCanvasImage"]
  /\ UNCHANGED pipelineVars
  /\ UNCHANGED <<pageVars, historyVars>>

\* Mutation of ModelLoadFails: the error of the load is not caught and the
\* promise of extractProfilePhoto rejects.
ModelLoadFailsUncaught(c) ==
  /\ photoCalls[c].pc = "awaitLoad"
  /\ modelLoads' = [modelLoads EXCEPT !.failed = TRUE]
  /\ photoCalls' = [photoCalls EXCEPT ![c].pc = "rejected",
                                      ![c].detection = "loadFailed",
                                      ![c].result = Thrown]
  /\ UNCHANGED isModelLoaded
  /\ UNCHANGED pipelineVars
  /\ UNCHANGED <<pageVars, historyVars>>

\* loadFromUri rejects: loadFaceApiModels rethrows, detectAndCropFace catches
\* and returns null, extractProfilePhoto falls back to the full image
ModelLoadFails(c) ==
  /\ photoCalls[c].pc = "awaitLoad"
  /\ modelLoads' = [modelLoads EXCEPT !.failed = TRUE]
  /\ photoCalls' = [photoCalls EXCEPT ![c].pc = "resolved",
                                      ![c].detection = "loadFailed",
                                      ![c].result = FullImageAt(photoCalls[c].img)]
  /\ UNCHANGED isModelLoaded
  /\ UNCHANGED pipelineVars
  /\ UNCHANGED <<pageVars, historyVars>>

\* the image made of the canvas loads: detectSingleFace is awaited
CanvasImageLoads(c) ==
  /\ photoCalls[c].pc = "awaitCanvasImage"
  /\ photoCalls' = [photoCalls EXCEPT ![c].pc = "detecting"]
  /\ UNCHANGED <<isModelLoaded, modelLoads>>
  /\ UNCHANGED pipelineVars
  /\ UNCHANGED <<pageVars, historyVars>>

\* the boxes a detection may return for an image: inside it, or over its edges
Boxes(img) ==
  { [x |-> x, y |-> y, width |-> w, height |-> 40] :
      x \in {0 - 8, 0, 100, img.width - 40},
      y \in {0, img.height - 20},
      w \in {40, 80} }

\* detectSingleFace settles: with a box the padded and clamped crop is
\* returned; with no detection, or with an exception, null is, and
\* extractProfilePhoto falls back to the full image
Detects(c) ==
  /\ photoCalls[c].pc = "detecting"
  /\ \/ \E box \in Boxes(photoCalls[c].img) :
          photoCalls' = [photoCalls EXCEPT ![c].pc = "resolved",
                                           ![c].detection = "box",
                                           ![c].box = box,
                                           ![c].result = CroppedFaceAt(box, photoCalls[c].img)]
     \/ \E outcome \in {"noFace", "threw"} :
          photoCalls' = [photoCalls EXCEPT ![c].pc = "resolved",
                                           ![c].detection = outcome,
                                           ![c].result = FullImageAt(photoCalls[c].img)]
  /\ UNCHANGED <<isModelLoaded, modelLoads>>
  /\ UNCHANGED pipelineVars
  /\ UNCHANGED <<pageVars, historyVars>>

PhotoNext ==
  \/ \E c \in DOMAIN photoCalls : ImageLoads(c)
  \/ \E c \in DOMAIN photoCalls : ImageFails(c)
  \/ \E c \in DOMAIN photoCalls : ModelLoads(c)
  \/ \E c \in DOMAIN photoCalls : ModelLoadFails(c)
  \/ \E c \in DOMAIN photoCalls : CanvasImageLoads(c)
  \/ \E c \in DOMAIN photoCalls : Detects(c)

\* the source images of the calls: within the limit, at it, over it in
\* width, in height and in both, and square
Images ==
  { [width |-> 800, height |-> 600], [width |-> 1200, height |-> 1200],
    [width |-> 1201, height |-> 600], [width |-> 2400, height |-> 1801],
    [width |-> 600, height |-> 2400], [width |-> 3000, height |-> 3000],
    [width |-> 1300, height |-> 1201], [width |-> 1000, height |-> 1600] }

\* the pipeline at rest while the photo locator runs
PipelineAtRest ==
  /\ pc = "photo"
  /\ file = [type |-> "image/jpeg", convertedImage |-> FALSE]
  /\ imageToProcess = "file"
  /\ text = <<>>
  /\ docType = detectDocumentType(text)
  /\ mrzData = Null
  /\ extractedArabicName = <<>>
  /\ photoSource = PhotoSourceOf(file, imageToProcess)
  /\ profilePhoto = <<>>
  /\ visaData = None

\* one call of extractProfilePhoto, on any of the images
PhotoInit ==
  /\ PipelineAtRest
  /\ AppIdle
  /\ isModelLoaded = FALSE
  /\ modelLoads = [started |-> 0, failed |-> FALSE, succeeded |-> FALSE]
  /\ photoCalls \in [1..1 -> {NewCall(img) : img \in Images}]

PhotoSpec == PhotoInit /\ [][PhotoNext]_vars

-----------------------------------------------------------------------------
\* the calls of extractProfilePhoto that have resolved
ResolvedCalls == {c \in DOMAIN photoCalls : photoCalls[c].pc = "resolved"}

\* the resolved calls whose face detection gave no crop: no box, an exception,
\* or a model that failed to load
CallsWithoutCrop ==
  {c \in ResolvedCalls : photoCalls[c].detection \in {"noFace", "threw", "loadFailed"}}

\* r is n / d rounded to the nearest integer, halves upwards
IsRounded(r, n, d) == 2 * d * r <= 2 * n + d /\ 2 * n + d < 2 * d * (r + 1)

\* the dimensions (w, h) the claim gives for a source of W by H
IsDownscaled(w, h, W, H) ==
  IF W <= maxDimension /\ H <= maxDimension
  THEN w = W /\ h = H
  ELSE /\ W >= H => w = maxDimension /\ IsRounded(h, H * maxDimension, W)
       /\ H >= W => h = maxDimension /\ IsRounded(w, W * maxDimension, H)

CallsWithBox == {c \in ResolvedCalls : photoCalls[c].detection = "box"}

\* the box grown by 25% of its width to the left and to the right and by 25%
\* of its height above and below
ExpandedBox(box) ==
  [left |-> box.x - box.width \div 4, right |-> box.x + box.width + box.width \div 4,
   top |-> box.y - box.height \div 4, bottom |-> box.y + box.height + box.height \div 4]

\* the rectangle lies inside [0, width] x [0, height] of the image
InsideImage(rect, img) ==
  /\ 0 <= rect.x /\ rect.x + rect.width <= img.width
  /\ 0 <= rect.y /\ rect.y + rect.height <= img.height

\* the rectangle extends beyond the expanded box on no side
InsideExpandedBox(rect, box) ==
  /\ ExpandedBox(box).left <= rect.x
  /\ rect.x + rect.width <= ExpandedBox(box).right
  /\ ExpandedBox(box).top <= rect.y
  /\ rect.y + rect.height <= ExpandedBox(box).bottom

\* C17: when a face box is detected, the crop rectangle is the box expanded by
\* 25% of its side on every side and clamped to the image: it lies inside the
\* image and extends beyond the expanded box on no side.
C17_CropIsClampedExpandedBox ==
  \A c \in CallsWithBox :
    /\ InsideImage(photoCalls[c].result.rect, photoCalls[c].img)
    /\ InsideExpandedBox(photoCalls[c].result.rect, photoCalls[c].box)

C18_WitnessImageFails ==
  \E c \in ResolvedCalls :
    photoCalls[c].detection = "imageFailed" /\ photoCalls[c].result = <<>>

-----------------------------------------------------------------------------
\* the call has rejected with the generic error of the catch block
Failed == pc = "failed"

\* the rasterization and the recognition are each entered once, from the
\* stage before them, and the call is never started over
NoRetry ==
  /\ pc' # "start"
  /\ pc' = "rasterize" => pc = "start"
  /\ pc' = "recognize" => pc \in {"start", "rasterize"}
  /\ Failed => Failed'

\* a step out of the rasterization goes on to the recognition or rejects, and
\* a step out of the recognition goes on to the classification or rejects
FailsOrGoesOn ==
  /\ pc = "rasterize" => pc' \in {"recognize", "failed"}
  /\ pc = "recognize" => pc' \in {"classify", "failed"}

\* C19: when the rasterization of a PDF fails or the recognizer throws, the
\* call rejects with the one generic error and yields no record; a call ends
\* with a fully assembled record or with the error, never holds a partial
\* record, and nothing is retried.
C19_FailsEntirelyWithoutRetry ==
  /\ [](Failed => visaData = GenericError)
  /\ [](Returned => IsFullyShaped(visaData))
  /\ [](~Failed /\ ~Returned => visaData = None)
  /\ [][FailsOrGoesOn /\ NoRetry]_vars

\* the rasterization of a PDF given without a converted image has failed
C19_Witness ==
  /\ Failed
  /\ file.type = "application/pdf" /\ ~file.convertedImage
  /\ imageToProcess = "file"
  /\ visaData = GenericError

\* the recognizer has thrown on an image
C19_WitnessRecognizerThrows ==
  Failed /\ file.type = "image/jpeg" /\ visaData = GenericError

-----------------------------------------------------------------------------
(* Several calls of extractProfilePhoto in flight at once: OCRPage starts one
   per upload, and every call enters detectAndCropFace, which awaits
   loadFaceApiModels while isModelLoaded is false. *)

\* the number of calls in flight
MaxCalls == 2

\* the image of every call
UploadedImage == [width |-> 800, height |-> 600]

LoadInit ==
  /\ PipelineAtRest
  /\ AppIdle
  /\ isModelLoaded = FALSE
  /\ modelLoads = [started |-> 0, failed |-> FALSE, succeeded |-> FALSE]
  /\ photoCalls = [c \in 1..MaxCalls |-> NewCall(UploadedImage)]

LoadSpec == LoadInit /\ [][PhotoNext]_vars

\* C20: the model is loaded once and then reused: whatever the interleaving
\* of the calls, two calls that start before the first load has completed
\* included, the load from the remote URL is started at most once as long as
\* no load has failed.
C20_LoadStartedAtMostOnce ==
  ~modelLoads.failed => modelLoads.started <= 1

\* the part of C20 that holds: after one successful load no load is started
C20_NoLoadAfterSuccess ==
  [][modelLoads.succeeded => modelLoads'.started = modelLoads.started]_vars

-----------------------------------------------------------------------------
\* the place of each stage of extractVisaData in the order of the code
StageRank ==
  [stage \in {"start", "rasterize", "recognize", "classify", "parseMRZ", "extractName",
              "photo", "assemble", "done", "failed"} |->
     CASE stage = "start" -> 0
       [] stage = "rasterize" -> 1
       [] stage = "recognize" -> 2
       [] stage = "classify" -> 3
       [] stage = "parseMRZ" -> 4
       [] stage = "extractName" -> 5
       [] stage = "photo" -> 6
       [] stage = "assemble" -> 7
       [] OTHER -> 8]

\* the file is a PDF given without a converted image
NeedsRasterization == file.type = "application/pdf" /\ ~file.convertedImage

\* what holds in every state of a call about the stage it is at
StageInvariant ==
  /\ pc = "rasterize" => NeedsRasterization
  /\ (pc = "recognize" /\ NeedsRasterization) => imageToProcess = "rasterized"
  /\ pc = "parseMRZ" => docType = "passport"
  /\ (StageRank[pc] > StageRank["classify"] /\ pc # "failed") =>
       docType = detectDocumentType(text)
  /\ (mrzData # Null) => docType = "passport"
  /\ pc \in {"photo", "assemble", "done"} => photoSource = imageToProcess
  /\ pc \in {"start", "rasterize", "recognize"} => text = <<>> /\ docType = "none"
  /\ pc # "done" => visaData \in {None, GenericError}

\* what holds of every step of a call: the stages are entered in the order of
\* the code, each from the one before it
StageStep ==
  /\ StageRank[pc'] > StageRank[pc]
  /\ pc' = "rasterize" => pc = "start"
  /\ pc' = "recognize" => pc = IF NeedsRasterization THEN "rasterize" ELSE "start"
  /\ pc' = "classify" => pc = "recognize"
  /\ pc' = "parseMRZ" => pc = "classify" /\ docType' = "passport"
  /\ pc' = "extractName" => pc = IF docType' = "passport" THEN "parseMRZ" ELSE "classify"
  /\ pc' = "photo" => pc = "extractName"
  /\ pc' = "assemble" => pc = "photo"
  /\ pc' = "done" => pc = "assemble"
  /\ imageToProcess' # imageToProcess => pc \in {"start", "rasterize"}
  /\ mrzData' # mrzData => pc = "parseMRZ"

\* C21: within one call the stages occur in a fixed order: the rasterization,
\* only of a PDF given without a converted image, completes before the
\* recognition starts; the classification runs on the recognized text;
\* parseMRZ runs only when the classifier returned passport; the photo is
\* located after the recognition, on the image given to the recognizer; the
\* email and the record come last.
C21_StagesInFixedOrder ==
  /\ [](StageInvariant)
  /\ [][StageStep]_vars

\* a call on a PDF that was rasterized, classified as passport and returned
C21_Witness ==
  /\ Returned
  /\ NeedsRasterization
  /\ docType = "passport"
  /\ mrzData # Null
  /\ photoSource = "rasterized"

-----------------------------------------------------------------------------
\* the cleaned result of Strategy 1 for the text
StrategyOneName(t) == cleanCandidate(RawName(t))

\* Strategy 1's result is empty, shorter than 3 characters, or without an
\* Arabic character
StrategyOneFell(t) ==
  \/ StrategyOneName(t) = <<>>
  \/ Len(StrategyOneName(t)) < 3
  \/ ~HasArabic(StrategyOneName(t))

\* the lines of the text the scan accepts: with an Arabic character, without a
\* header or label, and with a cleaned candidate of at least 2 space-separated
\* tokens and of fewer than 50 characters
AcceptedLines(t) ==
  {i \in 1..Len(SplitLines(t)) :
     IsNameLine(SplitLines(t)[i], cleanCandidate(Trim(SplitLines(t)[i])))}

\* the cleaned candidate of the first accepted line
FirstAcceptedCandidate(t) ==
  cleanCandidate(Trim(SplitLines(t)[MinOrZero(AcceptedLines(t))]))

\* the name of the text when the scan runs on the condition `runs`
NameWhenScanRuns(t, runs) ==
  IF runs /\ AcceptedLines(t) # {} THEN FirstAcceptedCandidate(t) ELSE StrategyOneName(t)

\* C22 (as stated): the line scan runs whenever Strategy 1's result is empty,
\* shorter than 3 characters or without an Arabic character, whatever the
\* length of the text; the first accepted candidate then replaces Strategy 1's
\* result, which is kept otherwise.
C22_ScanRunsForAnyLength ==
  AfterExtractName => extractedArabicName = NameWhenScanRuns(text, StrategyOneFell(text))

\* C22 (amended): the same, for the texts of more than 10 characters only; on
\* a text of 10 characters or fewer Strategy 1's result is kept.
C22_ScanRunsForLongerTexts ==
  AfterExtractName =>
    extractedArabicName = NameWhenScanRuns(text, StrategyOneFell(text) /\ Len(text) > 10)

\* the scan has replaced the empty result of Strategy 1 on a text of 11 characters
C22_Witness ==
  /\ AfterExtractName
  /\ text = ArabicNameOfEleven
  /\ StrategyOneName(text) = <<>>
  /\ extractedArabicName = ArabicNameOfEleven

\* a name of two words is alone in a text of 10 characters and is not returned
C22_WitnessShortText ==
  /\ AfterExtractName
  /\ text = ArabicNameOfTen
  /\ AcceptedLines(text) # {}
  /\ extractedArabicName = <<>>

\* the name returned for the text is the candidate of the line scan
ChosenByScan(t) ==
  /\ StrategyOneFell(t)
  /\ Len(t) > 10
  /\ AcceptedLines(t) # {}

\* the tokens of the name between spaces that are not empty
NonEmptyTokens(name) ==
  {i \in 1..Len(SplitChar(name, " ")) : SplitChar(name, " ")[i] # <<>>}

\* C23: a name chosen by the Strategy 2 line scan has at least two non-empty
\* space-separated tokens, holds an Arabic character, and is shorter than 50
\* characters.
C23_ScannedNameIsArabicFullName ==
  (AfterExtractName /\ ChosenByScan(text)) =>
    /\ Cardinality(NonEmptyTokens(extractedArabicName)) >= 2
    /\ HasArabic(extractedArabicName)
    /\ Len(extractedArabicName) < 50

-----------------------------------------------------------------------------
\* the line has an Arabic character and none of the headers and labels
IsBioPageLine(trimmed) ==
  /\ HasArabic(trimmed)
  /\ ~ContainsAny(trimmed, PassportHeaderWords, FALSE)
  /\ ~StartsWithPassportHeader(trimmed)

\* the Arabic characters of the candidate are at least 70% of its characters
\* other than spaces, or more than 70% of them when `strictly`
ArabicShare(candidate, strictly) ==
  IF strictly
  THEN 10 * ArabicCount(candidate) > 7 * Len(RemoveSpaces(candidate))
  ELSE 10 * ArabicCount(candidate) >= 7 * Len(RemoveSpaces(candidate))

\* the lines of the text whose cleaned candidate has at least 2 tokens, at
\* least shortest and fewer than 50 characters, and the Arabic share
BioPageNameLines(t, shortest, strictly) ==
  {i \in 1..Len(SplitLines(t)) :
     /\ IsBioPageLine(Trim(SplitLines(t)[i]))
     /\ Cardinality(NonEmptyTokens(PassportNameCandidate(Trim(SplitLines(t)[i])))) >= 2
     /\ Len(PassportNameCandidate(Trim(SplitLines(t)[i]))) >= shortest
     /\ Len(PassportNameCandidate(Trim(SplitLines(t)[i]))) < 50
     /\ ArabicShare(PassportNameCandidate(Trim(SplitLines(t)[i])), strictly)}

\* the cleaned candidate of the first of these lines, the empty string if none
BioPageName(t, shortest, strictly) ==
  IF BioPageNameLines(t, shortest, strictly) = {} THEN <<>>
  ELSE PassportNameCandidate(
         Trim(SplitLines(t)[MinOrZero(BioPageNameLines(t, shortest, strictly))]))

\* the passport branch has built the record returned
ReturnedPassport == Returned /\ docType = "passport" /\ mrzData # Null

\* C24 (as stated): the name of the bio page is the cleaned candidate of the
\* first line, free of headers and labels, with at least 2 tokens, fewer than
\* 50 characters and at least 70% of Arabic characters among those that are
\* not spaces, exactly 70% included.
C24_SeventyPercentAccepted ==
  ReturnedPassport =>
    visaData.fullName =
      FirstNonEmpty(BioPageName(text, 0, FALSE), extractedArabicName,
                    mrzData.firstName \o <<" ">> \o mrzData.lastName)

\* C24 (amended): the same with more than 70% of Arabic characters, exactly
\* 70% excluded, and a candidate of at least 5 characters.
C24_OverSeventyPercentAccepted ==
  ReturnedPassport =>
    visaData.fullName =
      FirstNonEmpty(BioPageName(text, 5, TRUE), extractedArabicName,
                    mrzData.firstName \o <<" ">> \o mrzData.lastName)

\* a bio page name with 8 Arabic characters of 11 is returned
C24_Witness ==
  /\ ReturnedPassport
  /\ ArabicCount(visaData.fullName) = 8
  /\ Len(RemoveSpaces(visaData.fullName)) = 11
  /\ visaData.fullName # extractedArabicName

\* a bio page line with 7 Arabic characters of 10 is passed over
C24_WitnessExactlySeventy ==
  /\ ReturnedPassport
  /\ BioPageName(text, 5, FALSE) # <<>>
  /\ BioPageName(text, 5, TRUE) = <<>>
  /\ visaData.fullName = extractedArabicName

-----------------------------------------------------------------------------
\* the denylist of the claim, in lower case
DenylistWords ==
  {<<"n", "a", "m", "e">>, <<"p", "a", "s", "s", "p", "o", "r", "t">>,
   <<"v", "i", "s", "a">>, <<"b", "i", "r", "t", "h">>, <<"d", "a", "t", "e">>,
   <<"p", "l", "a", "c", "e">>, <<"t", "y", "p", "e">>, <<"c", "o", "d", "e">>,
   <<"s", "e", "x">>, <<"n", "a", "t", "i", "o", "n", "a", "l", "i", "t", "y">>,
   <<"s", "a", "u", "d", "i">>, <<"d", "i", "g", "i", "t", "a", "l">>,
   <<"m", "i", "n", "i", "s", "t", "r", "y">>, <<"u", "m", "r", "a", "h">>,
   <<"h", "a", "j", "j">>, <<"k", "i", "n", "g", "d", "o", "m">>}

\* the first word is, whatever its case, a word of the denylist
IsDenylistWord(first) == ToLowerCase(first) \in DenylistWords

\* the successive matches of two capitalized words in the text, each searched
\* after the end of the one before: their positions from the position `from`
MatchesFrom(t) ==
  LET M[from \in 1..(Len(t) + 1)] ==
        LET at == MinOrZero({i \in from..Len(t) : EnglishNameAt(t, i) # <<>>})
        IN  IF at = 0 THEN <<>> ELSE <<at>> \o M[EnglishNameAt(t, at)[3]]
  IN  M[1]

\* the successive matches whose first word is not a word of the denylist
AcceptableMatches(t) ==
  SelectSeq([k \in 1..Len(MatchesFrom(t)) |-> EnglishNameAt(t, MatchesFrom(t)[k])],
            LAMBDA m : ~IsDenylistWord(m[1]))

\* the email of the claim for the text
EmailOfFirstAcceptable(t) ==
  IF AcceptableMatches(t) = <<>> THEN <<>>
  ELSE ToLowerCase(AcceptableMatches(t)[1][1] \o First3(AcceptableMatches(t)[1][2]))
         \o EmailDomain

\* the visa branch has built the record returned from a name that is empty or
\* without an Arabic character
VisaBranchWithoutArabicName ==
  /\ Returned
  /\ ~UsesPassportBranch(docType, mrzData)
  /\ (extractedArabicName = <<>> \/ ~HasArabic(extractedArabicName))

\* C25: on the visa path, with a name that is empty or without an Arabic
\* character, the email is made of the first match of two capitalized words
\* whose first word is not a word of the denylist, in lower case: the first
\* word and the first 3 letters of the second, then @comfythings.com; a match
\* is skipped only if its first word is a denylist word, and the email is
\* empty only if there is no acceptable match.
C25_EnglishFallbackSkipsDenylistOnly ==
  VisaBranchWithoutArabicName => visaData.email = EmailOfFirstAcceptable(text)

-----------------------------------------------------------------------------
\* the value of the first of the three patterns that matches, the empty
\* string when none does; each value is that of the pattern's leftmost match
\* and is empty when the pattern matches nowhere
FirstOfThree(english, arabic, bare) ==
  IF english # <<>> THEN english ELSE IF arabic # <<>> THEN arabic ELSE bare

\* Passport No, then [.:\s]+, then the letters and digits captured
EnglishPassportNo(t) ==
  LabelledRun(t, << <<"P", "a", "s", "s", "p", "o", "r", "t">>, <<"N", "o">> >>, TRUE,
              DotColonSpace, AlphaOrDigit)

ArabicPassportNo(t) ==
  LabelledRun(t, << <<"reh", "qaf", "meem">>, <<"jeem", "waw", "alef", "zain">>,
                    <<"alef", "lam", "seen", "feh", "reh">> >>, FALSE, ColonSpace,
              UpperOrDigit)

\* the leftmost run of one or two capitals and seven to nine digits
BarePassportNo(t) ==
  LET at == MinOrZero({i \in 1..Len(t) : PassportShapeLen(t, i) > 0})
  IN  IF at = 0 THEN <<>> ELSE SubSeq(t, at, at + PassportShapeLen(t, at) - 1)

EnglishVisaNo(t) ==
  LabelledRun(t, << <<"V", "i", "s", "a">>, <<"N", "o">> >>, TRUE, DotColonSpace, DigitSet)

ArabicVisaNo(t) ==
  LabelledRun(t, << <<"reh", "qaf", "meem">>,
                    <<"alef", "lam", "teh", "alef_hamza_above", "sheen", "yeh", "reh",
                      "teh_marbuta">> >>, FALSE, ColonSpace, DigitSet)

\* the leftmost word of ten to twelve digits
BareVisaNo(t) ==
  LET at == MinOrZero({i \in 1..Len(t) : VisaNoShapeLen(t, i) > 0})
  IN  IF at = 0 THEN <<>> ELSE SubSeq(t, at, at + VisaNoShapeLen(t, at) - 1)

EnglishBirthDate(t) ==
  LabelledDate(t, << <<"B", "i", "r", "t", "h">>, <<"D", "a", "t", "e">> >>, TRUE, {"/"})

ArabicBirthDate(t) == LabelledDate(t, TarikhAlMilad, FALSE, {"/"})

\* the visa branch has built the record returned
ReturnedVisa == Returned /\ ~UsesPassportBranch(docType, mrzData)

\* C26: each of the three extractors tries the English label, the Arabic label
\* and the bare shape in this order and returns the trimmed value of the
\* first that matches anywhere in the text, the empty string if and only if
\* none matches; each result is a function of the text alone.
C26_LabelledBeforeBare ==
  ReturnedVisa =>
    /\ visaData.passportNumber =
         Trim(FirstOfThree(EnglishPassportNo(text), ArabicPassportNo(text),
                           BarePassportNo(text)))
    /\ visaData.visaNumber =
         Trim(FirstOfThree(EnglishVisaNo(text), ArabicVisaNo(text), BareVisaNo(text)))
    /\ visaData.birthDate =
         Trim(FirstOfThree(EnglishBirthDate(text), ArabicBirthDate(text),
                           BareDate(text, {"/"})))
    /\ visaData.passportNumber = <<>> <=>
         (EnglishPassportNo(text) = <<>> /\ ArabicPassportNo(text) = <<>>
            /\ BarePassportNo(text) = <<>>)
    /\ visaData.visaNumber = <<>> <=>
         (EnglishVisaNo(text) = <<>> /\ ArabicVisaNo(text) = <<>> /\ BareVisaNo(text) = <<>>)
    /\ visaData.birthDate = <<>> <=>
         (EnglishBirthDate(text) = <<>> /\ ArabicBirthDate(text) = <<>>
            /\ BareDate(text, {"/"}) = <<>>)

\* the labelled values are returned although bare values stand before them
C26_Witness ==
  /\ ReturnedVisa
  /\ BareVisaNo(text) \notin {<<>>, visaData.visaNumber}
  /\ BarePassportNo(text) \notin {<<>>, visaData.passportNumber}
  /\ BareDate(text, {"/"}) \notin {<<>>, visaData.birthDate}
  /\ visaData.visaNumber = EnglishVisaNo(text)

\* the values under the Arabic labels are returned, there being no English label
C26_WitnessArabicLabels ==
  /\ ReturnedVisa
  /\ EnglishVisaNo(text) = <<>>
  /\ visaData.visaNumber = ArabicVisaNo(text) /\ visaData.visaNumber # BareVisaNo(text)
  /\ visaData.passportNumber = ArabicPassportNo(text)
  /\ visaData.birthDate = ArabicBirthDate(text) /\ visaData.birthDate # <<>>

-----------------------------------------------------------------------------
\* the lines of the text, each without its whitespace
StrippedLines(t) == [i \in 1..Len(SplitLines(t)) |-> RemoveSpaces(SplitLines(t)[i])]

\* the line qualifies as MRZ line 1: P<, three capitals, 40 characters or more
QualifiesAsLine1(line) ==
  /\ Len(line) >= 40
  /\ SubSeq(line, 1, 2) = <<"P", "<">>
  /\ \A k \in 3..5 : line[k] \in UpperSet

\* the line qualifies as MRZ line 2: the fallback shape, 40 characters or more
QualifiesAsLine2(line) == Len(line) >= 40 /\ IsMRZLine2Fallback(line)

\* the lines that qualify as one or the other
QualifyingLines(t) ==
  {i \in 1..Len(StrippedLines(t)) :
     QualifiesAsLine1(StrippedLines(t)[i]) \/ QualifiesAsLine2(StrippedLines(t)[i])}

\* the line i of the text without its whitespace, the empty string if the text
\* has no line i
StrippedLine(t, i) ==
  IF i \in 1..Len(StrippedLines(t)) THEN StrippedLines(t)[i] ELSE <<>>

\* what parseMRZ returns when its scan stops at the line h of the text
ParsedAt(t, h) ==
  IF QualifiesAsLine1(StrippedLine(t, h))
  THEN IF StrippedLine(t, h + 1) = <<>> THEN Null
       ELSE DecodeMRZ(StrippedLine(t, h), StrippedLine(t, h + 1))
  ELSE IF StrippedLine(t, h - 1) = <<>> THEN Null
       ELSE DecodeMRZ(StrippedLine(t, h - 1), StrippedLine(t, h))

\* C27: the scan of parseMRZ stops at the first line that qualifies as line 1
\* or as line 2; line 2 of a line 1 is the line after it, line 1 of a line 2
\* the line before it, each without its whitespace; the result is null when
\* that neighbour is missing or empty, whatever the other lines of the text.
C27_ScanStopsAtFirstHit ==
  AfterParseMRZ =>
    mrzData = IF QualifyingLines(text) = {} THEN Null
              ELSE ParsedAt(text, MinOrZero(QualifyingLines(text)))

\* the scan stopped at a line of the fallback shape with no line before it,
\* and the result is null although a whole MRZ follows
C27_Witness ==
  /\ AfterParseMRZ
  /\ mrzData = Null
  /\ Cardinality(QualifyingLines(text)) >= 2
  /\ QualifiesAsLine2(StrippedLine(text, MinOrZero(QualifyingLines(text))))
  /\ \E i \in QualifyingLines(text) :
       QualifiesAsLine1(StrippedLine(text, i)) /\ StrippedLine(text, i + 1) # <<>>

\* the scan stopped at a line of the fallback shape and took the line before
\* it, without its spaces, as line 1
C27_WitnessLineBefore ==
  /\ AfterParseMRZ
  /\ mrzData # Null
  /\ QualifiesAsLine2(StrippedLine(text, MinOrZero(QualifyingLines(text))))
  /\ mrzData.lastName = <<"D", "O", "E">>
  /\ \E i \in 1..Len(text) : text[i] = " "

(***************************************************************************)
(* OCRPage: processFile and the two handlers that call it.  A call runs    *)
(* up to its next await in one step; the record extractVisaData gives for  *)
(* an uploaded file is part of the file.                                   *)
(***************************************************************************)
\* the uploads of one run
MaxUploads == 3

\* the types of the files a user may choose or drop
FileTypes == {"application/pdf", "image/jpeg", "text/plain"}

\* a record extractVisaData resolves with
ExtractedRecord(fullName, passportNumber) ==
  [fullName |-> fullName, email |-> <<>>, passportNumber |-> passportNumber,
   visaNumber |-> <<>>, birthDate |-> <<>>, clientPhoto |-> Undefined]

\* Ali, Omar
NameAli == <<"A", "l", "i">>
NameOmar == <<"O", "m", "a", "r">>

\* two passport numbers
PassportOne == <<"P", "1">>
PassportTwo == <<"P", "2">>

\* the records the uploaded files hold
UploadedRecords ==
  {ExtractedRecord(NameAli, PassportOne), ExtractedRecord(NameOmar, PassportTwo)}

\* file.type.startsWith('image/') || file.type === 'application/pdf'
AcceptedByDrop(type) == type \in {"application/pdf", "image/jpeg"}

\* the calls of processFile that have not returned
InFlight == {c \in DOMAIN uploads : uploads[c].pc \in {"converting", "extracting"}}

\* setExtractedData((prev) => ({ ...prev, ...data }))
handleDataExtracted(prev, data) ==
  [field \in DOMAIN prev \cup DOMAIN data |->
     IF field \in DOMAIN data THEN data[field] ELSE prev[field]]

\* processFile up to its first await: the flag is set, a PDF goes to conversion,
\* any other file is previewed at once and goes to extractVisaData
processFile(type, data) ==
  /\ Len(uploads) < MaxUploads
  /\ isProcessing' = TRUE
  /\ IF type = "application/pdf"
     THEN /\ uploads' = Append(uploads, [type |-> type, data |-> data, pc |-> "converting"])
          /\ UNCHANGED imagePreview
     ELSE /\ uploads' = Append(uploads, [type |-> type, data |-> data, pc |-> "extracting"])
          /\ imagePreview' = Len(uploads) + 1
  /\ UNCHANGED shownUpload

\* the file inputs, disabled={isProcessing}: onChange calls processFile
handleImageUpload(type, data) ==
  /\ ~isProcessing
  /\ processFile(type, data)
  /\ UNCHANGED <<pipelineVars, photoVars, historyVars>>

\* the drop zone, rendered while !imagePreview: onDrop calls processFile
handleDrop(type, data) ==
  /\ imagePreview = 0
  /\ AcceptedByDrop(type)
  /\ processFile(type, data)
  /\ UNCHANGED <<pipelineVars, photoVars, historyVars>>

\* convertPdfToImage resolves: the converted page is previewed, extractVisaData is called
Converted(c) ==
  /\ uploads[c].pc = "converting"
  /\ imagePreview' = c
  /\ uploads' = [uploads EXCEPT ![c].pc = "extracting"]
  /\ UNCHANGED <<isProcessing, shownUpload>>
  /\ UNCHANGED <<pipelineVars, photoVars, historyVars>>

\* convertPdfToImage rejects: alert, setIsProcessing(false), return
ConversionFails(c) ==
  /\ uploads[c].pc = "converting"
  /\ isProcessing' = FALSE
  /\ uploads' = [uploads EXCEPT ![c].pc = "failed"]
  /\ UNCHANGED <<imagePreview, shownUpload>>
  /\ UNCHANGED <<pipelineVars, photoVars, historyVars>>

\* extractVisaData resolves: setVisaData(data), onDataExtracted, finally setIsProcessing(false)
Extracted(c) ==
  /\ uploads[c].pc = "extracting"
  /\ shownUpload' = c
  /\ extractedData' = handleDataExtracted(extractedData, uploads[c].data)
  /\ isProcessing' = FALSE
  /\ uploads' = [uploads EXCEPT ![c].pc = "done"]
  /\ UNCHANGED imagePreview
  /\ UNCHANGED <<mounted, localStorage, clientsHistory, idsGenerated>>
  /\ UNCHANGED <<pipelineVars, photoVars>>

\* extractVisaData rejects: alert, finally setIsProcessing(false)
ExtractionFails(c) ==
  /\ uploads[c].pc = "extracting"
  /\ isProcessing' = FALSE
  /\ uploads' = [uploads EXCEPT ![c].pc = "failed"]
  /\ UNCHANGED <<imagePreview, shownUpload>>
  /\ UNCHANGED <<pipelineVars, photoVars, historyVars>>

PageNext ==
  \/ \E type \in FileTypes, data \in UploadedRecords : handleImageUpload(type, data)
  \/ \E type \in FileTypes, data \in UploadedRecords : handleDrop(type, data)
  \/ \E c \in DOMAIN uploads : Converted(c)
  \/ \E c \in DOMAIN uploads : ConversionFails(c)
  \/ \E c \in DOMAIN uploads : Extracted(c)
  \/ \E c \in DOMAIN uploads : ExtractionFails(c)

\* the page as it is first rendered
PageInit ==
  /\ PipelineAtRest
  /\ PhotoIdle
  /\ AppIdle

PageSpec == PageInit /\ [][PageNext]_vars

(***************************************************************************)
(* C28: concurrent uploads                                                 *)
(***************************************************************************)
\* isProcessing is true whenever a call of processFile is in flight
FlagWhileInFlight == InFlight # {} => isProcessing

\* once every call has returned and the upload started last was extracted,
\* the record displayed is the one of the upload started last
LastStartedIsShown ==
  (/\ uploads # <<>>
   /\ InFlight = {}
   /\ uploads[Len(uploads)].pc = "done")
  => shownUpload = Len(uploads)

\* C28: isProcessing is true whenever at least one processFile call is in flight,
\* and the record finally displayed is the one of the most recently started upload.
C28_FlagCoversEveryCallAndLastUploadWins ==
  /\ FlagWhileInFlight
  /\ LastStartedIsShown

(***************************************************************************)
(* App: the client history.  The history is read from the local storage    *)
(* when the component mounts and written back after every change.          *)
(***************************************************************************)
\* the calls of generateId in one run
MaxIds == 3

\* generateId(): crypto.randomUUID(), or the time and a random number; the n-th
\* call gives an id no earlier call gave and no stored entry holds
generateId(n) == <<"generated", n>>

\* 'عميل بدون اسم'
ClientWithoutName ==
  <<"ain", "meem", "yeh", "lam", " ", "beh", "dal", "waw", "noon", " ",
    "alef", "seen", "meem">>

\* 'عميل جديد'
NewClientName ==
  <<"ain", "meem", "yeh", "lam", " ", "jeem", "dal", "yeh", "dal">>

\* new Date().toISOString()
Now == <<"n", "o", "w">>

\* the number of entries up to the i-th that have no id
MissingIds(parsed, i) == Cardinality({j \in 1..i : ~Truthy(parsed[j].id)})

\* parsed.map(c => ({ ...c, id: c.id || generateId(), fullname: c.fullname || '...' })),
\* after n earlier calls of generateId
WithIdsAndNames(parsed, n) ==
  [i \in 1..Len(parsed) |->
     [parsed[i] EXCEPT
        !.id = IF Truthy(@) THEN @ ELSE generateId(n + MissingIds(parsed, i)),
        !.fullname = IF Truthy(@) THEN @ ELSE ClientWithoutName]]

\* parsed.filter(c => { if (!c.id) return false; const duplicate = seen.has(c.id);
\*                      seen.add(c.id); return !duplicate; })
RECURSIVE RemoveDuplicates(_, _)
RemoveDuplicates(parsed, seen) ==
  IF parsed = <<>> THEN <<>>
  ELSE IF ~Truthy(Head(parsed).id) THEN RemoveDuplicates(Tail(parsed), seen)
  ELSE IF Head(parsed).id \in seen
       THEN RemoveDuplicates(Tail(parsed), seen \cup {Head(parsed).id})
       ELSE <<Head(parsed)>> \o RemoveDuplicates(Tail(parsed), seen \cup {Head(parsed).id})

\* the initializer without its filter: no entry is dropped
LoadHistoryUnfiltered(saved, n) ==
  IF saved.kind # "array" THEN <<>>
  ELSE WithIdsAndNames(saved.items, n)

\* the initializer of clientsHistory: [] unless the item is the JSON of an array
\* (an absent item, a text JSON.parse throws on, a value that is not an array and
\* an array with a null element, on which c.id throws, all give [])
LoadHistory(saved, n) ==
  IF saved.kind # "array" THEN <<>>
  ELSE RemoveDuplicates(WithIdsAndNames(saved.items, n), {})

\* the new client of handleClientSaved
NewClient(clientData, extracted, n) ==
  [id |-> generateId(n),
   fullname |-> IF Truthy(clientData.fullName) THEN clientData.fullName ELSE NewClientName,
   email |-> IF Truthy(clientData.email) THEN clientData.email ELSE <<>>,
   passportnumber |-> clientData.passportNumber,
   visanumber |-> clientData.visaNumber,
   birthdate |-> clientData.birthDate,
   clientphoto |-> clientData.clientPhoto,
   medinahotel |-> extracted.medinaHotel,
   meccahotel |-> extracted.meccaHotel,
   roomtype |-> extracted.roomType,
   createdat |-> Now]

\* prev.filter((c) => c.id !== id)
WithoutId(prev, id) == SelectSeq(prev, LAMBDA c : c.id # id)

\* the entries handleClientUpdated takes for the updated client
MatchingEntries(prev, updatedData) ==
  {i \in 1..Len(prev) :
     \/ Truthy(prev[i].passportnumber) /\ prev[i].passportnumber = updatedData.passportNumber
     \/ prev[i].fullname = updatedData.fullName}

\* a || b
OrElse(a, b) == IF Truthy(a) THEN a ELSE b

\* { ...newHistory[exists], fullname: ..., ..., clientphoto: ... }
UpdatedEntry(old, updatedData) ==
  [old EXCEPT
     !.fullname = OrElse(updatedData.fullName, @),
     !.passportnumber = OrElse(updatedData.passportNumber, @),
     !.visanumber = OrElse(updatedData.visaNumber, @),
     !.birthdate = OrElse(updatedData.birthDate, @),
     !.medinahotel = updatedData.medinaHotel,
     !.meccahotel = updatedData.meccaHotel,
     !.roomtype = updatedData.roomType,
     !.clientphoto = OrElse(updatedData.clientPhoto, @)]

\* the last matching entry in place of the first
FindLastIndex(prev, updatedData) ==
  IF MatchingEntries(prev, updatedData) = {} THEN -1
  ELSE CHOOSE i \in MatchingEntries(prev, updatedData) :
         \A j \in MatchingEntries(prev, updatedData) : i >= j

\* prev.findIndex(...): the first matching entry, -1 if there is none
FindIndex(prev, updatedData) ==
  IF MatchingEntries(prev, updatedData) = {} THEN -1
  ELSE CHOOSE i \in MatchingEntries(prev, updatedData) :
         \A j \in MatchingEntries(prev, updatedData) : i <= j

\* the updater of handleClientUpdated
UpdatedHistory(prev, updatedData) ==
  IF FindIndex(prev, updatedData) >= 0
  THEN [prev EXCEPT ![FindIndex(prev, updatedData)] = UpdatedEntry(@, updatedData)]
  ELSE prev

\* the initializer of clientsHistory runs, then the effect stores the history
Mount ==
  /\ ~mounted
  /\ mounted' = TRUE
  /\ clientsHistory' = LoadHistory(localStorage, idsGenerated)
  /\ idsGenerated' =
       IF localStorage.kind = "array"
       THEN idsGenerated + MissingIds(localStorage.items, Len(localStorage.items))
       ELSE idsGenerated
  /\ localStorage' = JSONStringify(clientsHistory')
  /\ UNCHANGED extractedData
  /\ UNCHANGED <<pipelineVars, photoVars, pageVars>>

\* handleClientSaved, then the effect
ClientSaved(clientData) ==
  /\ mounted
  /\ idsGenerated < MaxIds
  /\ idsGenerated' = idsGenerated + 1
  /\ clientsHistory' =
       <<NewClient(clientData, extractedData, idsGenerated + 1)>> \o clientsHistory
  /\ localStorage' = JSONStringify(clientsHistory')
  /\ UNCHANGED <<mounted, extractedData>>
  /\ UNCHANGED <<pipelineVars, photoVars, pageVars>>

\* handleClientDeleted, then the effect
ClientDeleted(id) ==
  /\ mounted
  /\ clientsHistory' = WithoutId(clientsHistory, id)
  /\ localStorage' = JSONStringify(clientsHistory')
  /\ UNCHANGED <<mounted, extractedData, idsGenerated>>
  /\ UNCHANGED <<pipelineVars, photoVars, pageVars>>

\* handleClearHistory, then the effect: nothing changes unless the user confirms
ClearHistory(confirmed) ==
  /\ mounted
  /\ clientsHistory' = IF confirmed THEN <<>> ELSE clientsHistory
  /\ localStorage' = JSONStringify(clientsHistory')
  /\ UNCHANGED <<mounted, extractedData, idsGenerated>>
  /\ UNCHANGED <<pipelineVars, photoVars, pageVars>>

\* handleClientUpdated, then the effect
ClientUpdated(updatedData) ==
  /\ mounted
  /\ extractedData' = updatedData
  /\ clientsHistory' = UpdatedHistory(clientsHistory, updatedData)
  /\ localStorage' = JSONStringify(clientsHistory')
  /\ UNCHANGED <<mounted, idsGenerated>>
  /\ UNCHANGED <<pipelineVars, photoVars, pageVars>>

(***************************************************************************)
(* The stored items, saved clients and updates the model draws from.       *)
(***************************************************************************)
\* an entry of a stored history
StoredClient(id, fullname, passportnumber) ==
  [id |-> id, fullname |-> fullname, email |-> <<>>, passportnumber |-> passportnumber,
   visanumber |-> <<>>, birthdate |-> <<>>, clientphoto |-> Undefined,
   medinahotel |-> <<>>, meccahotel |-> <<>>, roomtype |-> <<>>,
   createdat |-> <<"t", "0">>]

\* two stored ids
IdA == <<"a">>
IdB == <<"b">>

\* the stored histories: empty, sound, with a duplicated id, with entries that
\* have no id or an empty one and no name, and with both defects
StoredHistories ==
  { <<>>,
    <<StoredClient(IdA, NameAli, PassportOne), StoredClient(IdB, NameOmar, <<>>)>>,
    <<StoredClient(IdA, NameAli, PassportOne), StoredClient(IdA, NameOmar, PassportTwo)>>,
    <<StoredClient(Undefined, NameAli, PassportOne), StoredClient(<<>>, Undefined, <<>>)>>,
    <<StoredClient(IdA, NameAli, <<>>), StoredClient(Undefined, NameAli, PassportOne),
      StoredClient(IdA, Undefined, PassportTwo)>> }

\* what the local storage may hold when the page is opened
StoredItems ==
  {StoredItem(kind, <<>>) : kind \in {"absent", "text", "object", "array of null"}}
    \cup {JSONStringify(list) : list \in StoredHistories}

\* the clients OCRPage saves: handleSaveClient returns early on an empty fullName
SavedClients ==
  {ExtractedRecord(NameAli, PassportOne), ExtractedRecord(NameOmar, <<>>)}

\* an updated record of BadgePage, its other fields all empty or all filled
UpdatedRecord(fullName, passportNumber, filled) ==
  [fullName |-> fullName, passportNumber |-> passportNumber,
   visaNumber |-> IF filled THEN <<"V", "1">> ELSE <<>>,
   birthDate |-> IF filled THEN <<"B", "1">> ELSE <<>>,
   medinaHotel |-> IF filled THEN <<"H", "1">> ELSE <<>>,
   meccaHotel |-> IF filled THEN <<"H", "2">> ELSE <<>>,
   roomType |-> IF filled THEN <<"R", "1">> ELSE <<>>,
   email |-> <<>>,
   clientPhoto |-> IF filled THEN <<"p", "h", "o", "t", "o">> ELSE Undefined]

\* the updates: a name and a passport number that may match different entries,
\* an empty name, an empty passport number, and a client the history never holds
UpdatedRecords ==
  { UpdatedRecord(NameAli, PassportOne, TRUE),
    UpdatedRecord(NameOmar, PassportOne, FALSE),
    UpdatedRecord(<<>>, PassportTwo, TRUE),
    UpdatedRecord(NameAli, <<>>, FALSE),
    UpdatedRecord(<<"Z", "a", "i", "d">>, <<"P", "3">>, TRUE) }

\* the ids a client of the history page may be deleted by
DeletableIds == {clientsHistory[i].id : i \in DOMAIN clientsHistory}

HistoryNext ==
  \/ Mount
  \/ \E clientData \in SavedClients : ClientSaved(clientData)
  \/ \E id \in DeletableIds : ClientDeleted(id)
  \/ \E confirmed \in BOOLEAN : ClearHistory(confirmed)
  \/ \E updatedData \in UpdatedRecords : ClientUpdated(updatedData)

\* the page is opened on any of the stored items
HistoryInit ==
  /\ PipelineAtRest
  /\ PhotoIdle
  /\ isProcessing = FALSE
  /\ imagePreview = 0
  /\ shownUpload = 0
  /\ uploads = <<>>
  /\ mounted = FALSE
  /\ localStorage \in StoredItems
  /\ clientsHistory = <<>>
  /\ extractedData = EmptyBadgeData
  /\ idsGenerated = 0

HistorySpec == HistoryInit /\ [][HistoryNext]_vars

(***************************************************************************)
(* C29: the ids of the client history                                      *)
(***************************************************************************)
\* the ids of the entries of a list
IdsOf(list) == {list[i].id : i \in DOMAIN list}

\* no two entries of the list share an id, and no entry is without one
HasUniqueIds(list) ==
  /\ \A i \in DOMAIN list : Truthy(list[i].id)
  /\ \A i, j \in DOMAIN list : list[i].id = list[j].id => i = j

\* the list after is the list before without the entries of the given id, the
\* others in their order
IsRestInOrder(before, after, id) ==
  /\ Len(after) = Cardinality({i \in DOMAIN before : before[i].id # id})
  /\ \A i \in DOMAIN before :
       before[i].id # id =>
         after[Cardinality({j \in 1..i : before[j].id # id})] = before[i]

\* the history read from a stored array has one entry for each stored id and one
\* for each stored entry without an id
IsSanitized(items, loaded) ==
  /\ HasUniqueIds(loaded)
  /\ Len(loaded) =
       Cardinality({items[i].id : i \in {j \in DOMAIN items : Truthy(items[j].id)}})
         + MissingIds(items, Len(items))
  /\ \A i \in DOMAIN items : Truthy(items[i].id) => items[i].id \in IdsOf(loaded)

\* what holds of every step of the history: mounting sanitizes the stored list, a
\* longer history is the old one with one entry of a new id in front, and a
\* deletion leaves the other entries in their order
HistoryStep ==
  /\ (~mounted /\ mounted' /\ localStorage.kind = "array")
       => IsSanitized(localStorage.items, clientsHistory')
  /\ (mounted /\ Len(clientsHistory') > Len(clientsHistory))
       => /\ Tail(clientsHistory') = clientsHistory
          /\ Head(clientsHistory').id \notin IdsOf(clientsHistory)
  /\ \A id \in DeletableIds :
       ClientDeleted(id) => IsRestInOrder(clientsHistory, clientsHistory', id)
  /\ (mounted /\ Len(clientsHistory') = Len(clientsHistory))
       => \A i \in DOMAIN clientsHistory : clientsHistory'[i].id = clientsHistory[i].id

\* C29: no two entries of the client history ever share an id: the stored list is
\* sanitized on loading, a save prepends one entry with a fresh id, and a delete
\* removes exactly the entries of the given id and keeps the others in order.
C29_HistoryIdsUnique ==
  [](HasUniqueIds(clientsHistory)) /\ [][HistoryStep]_vars

\* a stored history with a duplicated id and an entry without id was loaded,
\* two clients were saved and two entries deleted
C29_Witness ==
  /\ mounted
  /\ idsGenerated = 3
  /\ Len(clientsHistory) = 2
  /\ clientsHistory[1].id = generateId(3)
  /\ clientsHistory[2].id = IdA
  /\ clientsHistory[2].passportnumber = <<>>

\* the stored history with a duplicated id has been loaded: its third entry is gone
C29_WitnessDuplicateDropped ==
  /\ mounted
  /\ idsGenerated = 1
  /\ Len(clientsHistory) = 2
  /\ clientsHistory[1].id = IdA
  /\ clientsHistory[2].id = generateId(1)
  /\ clientsHistory[2].passportnumber = PassportOne

(***************************************************************************)
(* C30: the frame of handleClientUpdated                                   *)
(***************************************************************************)
\* the entries with a non-empty passport number equal to the updated one, or a
\* fullname equal to the updated full name
EntriesOfClient(list, updatedData) ==
  {i \in DOMAIN list :
     \/ list[i].passportnumber # <<>> /\ list[i].passportnumber # Undefined
          /\ list[i].passportnumber = updatedData.passportNumber
     \/ list[i].fullname = updatedData.fullName}

\* an empty value of an updated record
IsEmptyValue(v) == v = <<>> \/ v = Undefined

\* the entry after differs from the entry before as the update of one client
\* may: id, email and createdat are kept, and so is every field whose updated
\* value is empty
IsUpdateOf(before, after, updatedData) ==
  /\ after.id = before.id
  /\ after.email = before.email
  /\ after.createdat = before.createdat
  /\ IsEmptyValue(updatedData.fullName) => after.fullname = before.fullname
  /\ IsEmptyValue(updatedData.passportNumber) => after.passportnumber = before.passportnumber
  /\ IsEmptyValue(updatedData.visaNumber) => after.visanumber = before.visanumber
  /\ IsEmptyValue(updatedData.birthDate) => after.birthdate = before.birthdate
  /\ IsEmptyValue(updatedData.clientPhoto) => after.clientphoto = before.clientphoto

\* the history after is the history before with at most its first entry of the
\* updated client modified
IsFrameOfUpdate(before, after, updatedData) ==
  /\ Len(after) = Len(before)
  /\ \A i \in DOMAIN before :
       IF /\ i \in EntriesOfClient(before, updatedData)
          /\ \A j \in EntriesOfClient(before, updatedData) : i <= j
       THEN IsUpdateOf(before[i], after[i], updatedData)
       ELSE after[i] = before[i]

\* what holds of every step that is a call of handleClientUpdated
UpdateStep ==
  \A updatedData \in UpdatedRecords :
    ClientUpdated(updatedData)
      => IsFrameOfUpdate(clientsHistory, clientsHistory', updatedData)

\* C30: handleClientUpdated never changes the number or order of the entries;
\* without a match the history is unchanged, otherwise only the first match is
\* modified, its id, email and createdat are kept, and an empty updated
\* fullName, passportNumber, visaNumber, birthDate or clientPhoto keeps the
\* entry's previous value.
C30_UpdateTouchesFirstMatchOnly == [][UpdateStep]_vars

\* two entries matched the update, the first by its passport number and the
\* second by its name: the first now bears the updated name, the second is as stored
C30_Witness ==
  /\ mounted
  /\ extractedData = UpdatedRecord(NameOmar, PassportOne, FALSE)
  /\ Len(clientsHistory) = 2
  /\ clientsHistory[1] = [StoredClient(IdA, NameAli, PassportOne) EXCEPT !.fullname = NameOmar]
  /\ clientsHistory[2] = StoredClient(IdB, NameOmar, <<>>)

\* an update of a client the history does not hold left the history as stored
C30_WitnessNoMatch ==
  /\ mounted
  /\ extractedData = UpdatedRecord(<<"Z", "a", "i", "d">>, <<"P", "3">>, TRUE)
  /\ clientsHistory =
       <<StoredClient(IdA, NameAli, PassportOne), StoredClient(IdB, NameOmar, <<>>)>>
=============================================================================
